---- MODULE Spec2Model ----
(***************************************************************************)
(* Slide re-assembly of slidex: SlideAssembler.assemble and                *)
(* SlideAssembler._copy_slide (src/slidex/core/assembler.py), run against  *)
(* a fixed metadata store and a fixed set of source packages.              *)
(*                                                                         *)
(* Conventions.  A relationship identifier "rIdN" is the number N; the     *)
(* absent identifier (Python None) is NoRId.  A deck path is the rank of   *)
(* the path string in Python's string order, so that the sort key          *)
(* (deck_path, slide_index) compares as in the code.  Python None in a     *)
(* string field is the string None.                                        *)
(***************************************************************************)
EXTENDS Integers, Sequences, FiniteSets, TLC

\* Longest slide_ids list a caller passes.
MaxSlideIds == 3

None == "None"
NoRId == 0

(***************************************************************************)
(* Parts and relationships of an OPC package.                              *)
(* links: the relationship types the part itself holds inside its own      *)
(* package (a slide part always holds a slideLayout relationship).         *)
(***************************************************************************)
PartName(prefix, n, ext) == [prefix |-> prefix, n |-> n, ext |-> ext]

MkPart(pkg, partname, content_type, blob, links) ==
    [pkg |-> pkg, partname |-> partname, content_type |-> content_type,
     blob |-> blob, links |-> links]

NoPart == MkPart("none", PartName("", 0, ""), "", None, {})

\* A relationship of a source slide.  external: TargetMode External, whose
\* rel.target_part raises.  fault: how the library calls made for this
\* relationship behave: "none", "part" (building the new part raises before
\* new_part is assigned) or "relate" (relate_to raises).
SrcRel(rId, reltype, target, fault) ==
    [rId |-> rId, reltype |-> reltype, external |-> FALSE, target |-> target,
     fault |-> fault]

ExtRel(rId, reltype) ==
    [rId |-> rId, reltype |-> reltype, external |-> TRUE, target |-> NoPart,
     fault |-> "none"]

\* One element of a shape tree: its r:embed and r:id attributes (NoRId when
\* the attribute is absent).  cloneable: deepcopy and insertion succeed.
Shape(name, embed, id, cloneable) ==
    [name |-> name, embed |-> embed, id |-> id, cloneable |-> cloneable]

\* shapes_ok: iterating source_slide.shapes raises nothing.
SourceSlide(title, shapes_ok, shapes, rels) ==
    [title |-> title, shapes_ok |-> shapes_ok, shapes |-> shapes, rels |-> rels]

NoSlide == SourceSlide("", TRUE, <<>>, <<>>)

Package(w, h, slides) == [slide_width |-> w, slide_height |-> h, slides |-> slides]

\* A file: status is "ok", "corrupt" (it exists, Presentation() raises) or
\* "missing".
File(status, prs) == [status |-> status, prs |-> prs]

NoFile == File("missing", Package(0, 0, <<>>))

(***************************************************************************)
(* The source packages on disk.                                            *)
(***************************************************************************)
\* Canvas sizes (slide_width, slide_height) of the source packages: 4:3 and
\* 16:9 at 13.33 inches.
Dim43 == << 9144000, 6858000 >>
Dim169 == << 12192000, 6858000 >>

LayoutOf(pkg) ==
    MkPart(pkg, PartName("/ppt/slideLayouts/slideLayout", 1, "xml"),
           "slideLayout+xml", "layout", {"slideMaster"})

NotesOf(pkg) ==
    MkPart(pkg, PartName("/ppt/notesSlides/notesSlide", 1, "xml"),
           "notesSlide+xml", "notes", {"notesMaster", "slide"})

ImageOf(pkg, n, blob) ==
    MkPart(pkg, PartName("/ppt/media/image", n, "png"), "image/png", blob, {})

\* Deck 1, slide 0: a title and a picture; layout first, as python-pptx
\* writes it.
Deck1Slide0 ==
    SourceSlide("T1", TRUE,
        << Shape("Title 1", NoRId, NoRId, TRUE),
           Shape("Picture 2", 2, NoRId, TRUE) >>,
        << SrcRel(1, "slideLayout", LayoutOf("deck1"), "none"),
           SrcRel(2, "image", ImageOf("deck1", 1, "png-a"), "none") >>)

\* Deck 1, slide 1: written by another producer, the image relationship
\* first; speaker notes, an external hyperlink on the picture, an OLE object,
\* one shape whose clone fails, and a sound whose relate_to raises.
Deck1Slide1 ==
    SourceSlide("T2", TRUE,
        << Shape("Picture 1", 1, 4, TRUE),
           Shape("Object 2", NoRId, 5, TRUE),
           Shape("Broken 3", NoRId, NoRId, FALSE),
           Shape("Audio 4", NoRId, 6, TRUE) >>,
        << SrcRel(1, "image", ImageOf("deck1", 2, "png-b"), "none"),
           SrcRel(2, "slideLayout", LayoutOf("deck1"), "none"),
           SrcRel(3, "notesSlide", NotesOf("deck1"), "none"),
           ExtRel(4, "hyperlink"),
           SrcRel(5, "oleObject",
                  MkPart("deck1", PartName("/ppt/embeddings/oleObject", 1, "bin"),
                         "oleObject", "ole-a", {}), "none"),
           SrcRel(6, "audio",
                  MkPart("deck1", PartName("/ppt/media/media", 1, "wav"),
                         "audio/wav", "wav-a", {}), "relate") >>)

\* Deck 2, slide 0: a jump to another slide of deck 2 whose part copy fails,
\* a chart, a video, a picture the image codec rejects, and an embedded
\* workbook that exposes no blob.
Deck2Slide0 ==
    SourceSlide("T3", TRUE,
        << Shape("Action 1", NoRId, 2, TRUE),
           Shape("Chart 2", NoRId, 3, TRUE),
           Shape("Video 3", 5, 4, TRUE),
           Shape("Sheet 4", NoRId, 6, TRUE) >>,
        << SrcRel(1, "slideLayout", LayoutOf("deck2"), "none"),
           SrcRel(2, "slide",
                  MkPart("deck2", PartName("/ppt/slides/slide", 2, "xml"),
                         "slide+xml", "slide-2", {"slideLayout"}), "part"),
           SrcRel(3, "chart",
                  MkPart("deck2", PartName("/ppt/charts/chart", 1, "xml"),
                         "chart+xml", "chart-a", {"package"}), "none"),
           SrcRel(4, "video",
                  MkPart("deck2", PartName("/ppt/media/media", 1, "mp4"),
                         "video/mp4", "mp4-a", {}), "none"),
           SrcRel(5, "image", ImageOf("deck2", 1, "emf-a"), "part"),
           SrcRel(6, "package",
                  MkPart("deck2", PartName("/ppt/embeddings/Workbook", 1, "xlsx"),
                         "sheet", None, {}), "none") >>)

Deck2Slide1 ==
    SourceSlide("T4", TRUE, << Shape("Title 1", NoRId, NoRId, TRUE) >>,
        << SrcRel(1, "slideLayout", LayoutOf("deck2"), "none") >>)

\* The standalone file of a slide as save_slide_as_file leaves it: the layout
\* as rId1, then the images in order.
Standalone1 ==
    Package(Dim43[1], Dim43[2],
        << SourceSlide("T1", TRUE,
             << Shape("Title 1", NoRId, NoRId, TRUE),
                Shape("Picture 2", 2, NoRId, TRUE) >>,
             << SrcRel(1, "slideLayout", LayoutOf("s1"), "none"),
                SrcRel(2, "image", ImageOf("s1", 1, "png-a"), "none") >>) >>)

\* A standalone file whose shape tree cannot be iterated.
Standalone6 ==
    Package(Dim169[1], Dim169[2],
        << SourceSlide("T6", FALSE,
             << Shape("Title 1", NoRId, NoRId, TRUE) >>,
             << SrcRel(1, "slideLayout", LayoutOf("s6"), "none"),
                SrcRel(2, "image", ImageOf("s6", 1, "png-c"), "none") >>) >>)

DeckPaths == 1..3

\* The deck paths whose file has been deleted or moved away since the deck
\* was ingested.
VARIABLE removed

\* The deck files as ingested; deck 3 was moved away before any call.
DeckFile(deck_path) ==
    IF deck_path \in removed THEN NoFile
    ELSE CASE deck_path = 1 -> File("ok", Package(Dim43[1], Dim43[2],
                                             << Deck1Slide0, Deck1Slide1 >>))
           [] deck_path = 2 -> File("ok", Package(Dim169[1], Dim169[2],
                                             << Deck2Slide0, Deck2Slide1 >>))
           [] OTHER -> NoFile

SlideFile(path) ==
    CASE path = "slides/s1.pptx" -> File("ok", Standalone1)
      [] path = "slides/s6.pptx" -> File("ok", Standalone6)
      [] path = "slides/s7.pptx" -> File("corrupt", Package(0, 0, <<>>))
      [] OTHER -> NoFile

\* The single-page PDF documents: status as for File, and page_count.
PdfFile(path) ==
    CASE path \in { "slides/s1.pdf", "slides/s2.pdf", "slides/s7.pdf" } ->
            [status |-> "ok", page_count |-> 1]
      [] path = "slides/s5.pdf" -> [status |-> "ok", page_count |-> 0]
      [] path = "slides/s6.pdf" -> [status |-> "corrupt", page_count |-> 0]
      [] OTHER -> [status |-> "missing", page_count |-> 0]

(***************************************************************************)
(* The metadata store: db.get_slide_by_id.                                 *)
(***************************************************************************)
Record(slide_id, deck_path, slide_index, slide_file_path, slide_pdf_path, title) ==
    [slide_id |-> slide_id, deck_path |-> deck_path, slide_index |-> slide_index,
     slide_file_path |-> slide_file_path, slide_pdf_path |-> slide_pdf_path,
     title_header |-> title]

NoRecord == Record(None, 0, 0, None, None, None)

\* The rendered pages: s3 has no page recorded, the page of s4 is gone, the
\* document of s5 holds no page, the one of s6 cannot be opened.
\* s1: standalone file present.  s2, s3: no standalone file, read from the
\* deck.  s4: standalone file and deck both gone.  s5: the deck has fewer
\* slides than slide_index.  s6: same path and index as s1 (the path was
\* ingested again with other content); its shape tree is unreadable.
\* s7: the standalone file exists and is corrupt, the deck is intact.
KnownIds == { "s1", "s2", "s3", "s4", "s5", "s6", "s7" }

SlideRow(slide_id) ==
    CASE slide_id = "s1" ->
            Record("s1", 1, 0, "slides/s1.pptx", "slides/s1.pdf", "T1")
      [] slide_id = "s2" -> Record("s2", 1, 1, None, "slides/s2.pdf", "T2")
      [] slide_id = "s3" -> Record("s3", 2, 0, None, None, "T3")
      [] slide_id = "s4" ->
            Record("s4", 3, 0, "slides/s4.pptx", "slides/s4.pdf", "T5")
      [] slide_id = "s5" -> Record("s5", 1, 5, None, "slides/s5.pdf", "T7")
      [] slide_id = "s6" ->
            Record("s6", 1, 0, "slides/s6.pptx", "slides/s6.pdf", "T6")
      [] slide_id = "s7" ->
            Record("s7", 2, 1, "slides/s7.pptx", "slides/s7.pdf", "T4")

\* Every id a caller may pass; "nonexistent-id" is in no record.
SlideIds == KnownIds \cup { "nonexistent-id" }

\* The row of the slide joined with its deck, None when there is none.
get_slide_by_id(slide_id) ==
    IF slide_id \in KnownIds THEN SlideRow(slide_id) ELSE NoRecord

Found(slide) == slide # NoRecord

(***************************************************************************)
(* SlideAssembler._copy_slide                                              *)
(***************************************************************************)
\* reltype.lower() holds the substring sub.  A relationship type is written
\* by its last path segment; the common prefix of the type URIs,
\* http://schemas.openxmlformats.org/officeDocument/2006/relationships/,
\* holds none of the substrings the code looks for.
Substrings(reltype) ==
    CASE reltype = "slideLayout" -> {"slidelayout", "slide", "layout"}
      [] reltype = "slideMaster" -> {"slidemaster", "slide", "master"}
      [] reltype = "theme" -> {"theme"}
      [] reltype = "notesMaster" -> {"notesmaster", "notes", "master"}
      [] reltype = "notesSlide" -> {"notesslide", "notes", "slide"}
      [] reltype = "handoutMaster" -> {"handoutmaster", "master"}
      [] reltype = "image" -> {"image"}
      [] reltype = "oleObject" -> {"oleobject", "object"}
      [] reltype = "package" -> {"package"}
      [] reltype = "media" -> {"media"}
      [] reltype = "video" -> {"video"}
      [] reltype = "audio" -> {"audio"}
      [] reltype = "slide" -> {"slide"}
      [] reltype = "chart" -> {"chart"}
      [] reltype = "hyperlink" -> {"hyperlink", "link"}
      [] OTHER -> {}

skip_reltypes ==
    {"slidelayout", "slidemaster", "theme", "notesmaster", "notesslide",
     "handoutmaster"}

IsSkipped(reltype) == \E skip \in skip_reltypes : skip \in Substrings(reltype)

\* The branch of the if/elif chain that handles the relationship.
Branch(reltype) ==
    IF "image" \in Substrings(reltype) THEN "image"
    ELSE IF {"oleobject", "package", "embeddings"} \cap Substrings(reltype) # {}
    THEN "ole"
    ELSE IF {"media", "video", "audio"} \cap Substrings(reltype) # {}
    THEN "media"
    ELSE "other"

\* The target package of Presentation(): the default template; its layout 6
\* is the blank layout.
BlankLayout ==
    MkPart("target", PartName("/ppt/slideLayouts/slideLayout", 7, "xml"),
           "slideLayout+xml", "blank-layout", {"slideMaster"})

\* new_prs: slides of [rels, shapes]; parts is package._parts, the parts the
\* code registers by name.
NewPresentation(w, h) ==
    [slide_width |-> w, slide_height |-> h, slides |-> <<>>, parts |-> {}]

NoPresentation == NewPresentation(0, 0)

\* Variant of add_slide: the layout used has a title placeholder, which
\* add_slide clones into the new slide.
add_slide_with_placeholder(prs) ==
    [prs EXCEPT !.slides =
        Append(@, [rels |-> << [rId |-> 1, reltype |-> "slideLayout",
                                 target |-> BlankLayout] >>,
                   shapes |-> << Shape("Title Placeholder", NoRId, NoRId,
                                       TRUE) >>])]

\* slides.add_slide(blank_layout): a slide with no shape (the blank layout
\* has no placeholder to clone), related to the layout as rId1.
add_slide(prs) ==
    [prs EXCEPT !.slides =
        Append(@, [rels |-> << [rId |-> 1, reltype |-> "slideLayout",
                                 target |-> BlankLayout] >>,
                   shapes |-> <<>>])]

\* The shape loop: every shape whose clone and insertion succeed, in order.
RECURSIVE CopyShapes(_)
CopyShapes(shapes) ==
    IF shapes = <<>> THEN <<>>
    ELSE IF Head(shapes).cloneable
         THEN << Head(shapes) >> \o CopyShapes(Tail(shapes))
         ELSE CopyShapes(Tail(shapes))

\* Every part reachable from the slides of the target package.
RelatedParts(prs) ==
    UNION { { prs.slides[s].rels[k].target : k \in 1..Len(prs.slides[s].rels) } :
            s \in 1..Len(prs.slides) }

\* package.next_image_partname, used by ImagePart.new: the first free index
\* among the image parts of the package.
next_image_idx(prs) ==
    LET used == { p.partname.n : p \in { q \in RelatedParts(prs) :
                                            q.partname.prefix = "/ppt/media/image" } }
    IN  CHOOSE n \in 1..(Cardinality(used) + 1) :
            /\ n \notin used
            /\ \A m \in 1..(n - 1) : m \in used

\* The extension taken from the source part name (lines 229-233).
ExtOf(related_part) ==
    IF related_part.partname.ext # "" THEN related_part.partname.ext ELSE "bin"

\* Variant of BuildPart: the new part keeps the number of the source part
\* name instead of taking the counter.
BuildPartSourceNumber(prs, rel, count) ==
    LET related_part == rel.target
        blob == related_part.blob
        branch == Branch(rel.reltype)
        none == [has |-> FALSE, part |-> NoPart, count |-> count,
                 registered |-> FALSE]
    IN  IF branch = "image"
        THEN IF blob # None /\ related_part.content_type # ""
             THEN IF rel.fault = "part"
                  THEN [none EXCEPT !.count = count + 1]
                  ELSE [has |-> TRUE,
                        part |-> MkPart("target",
                                    PartName("/ppt/media/image",
                                             next_image_idx(prs),
                                             related_part.partname.ext),
                                    related_part.content_type, blob, {}),
                        count |-> count + 1, registered |-> FALSE]
             ELSE none
        ELSE IF blob # None
             THEN IF rel.fault = "part"
                  THEN [none EXCEPT !.count = count + 1]
                  ELSE [has |-> TRUE,
                        part |-> MkPart("target",
                                    PartName(CASE branch = "ole" ->
                                                    "/ppt/embeddings/oleObject"
                                               [] branch = "media" ->
                                                    "/ppt/media/media"
                                               [] OTHER -> "/ppt/other/object",
                                             related_part.partname.n,
                                             ExtOf(related_part)),
                                    related_part.content_type, blob, {}),
                        count |-> count + 1, registered |-> TRUE]
             ELSE none

\* The new part one branch builds (lines 200-290), with the counter after
\* it.  has: new_part is not None.  registered: the part was stored under
\* its name in package._parts.
BuildPart(prs, rel, count) ==
    LET related_part == rel.target
        blob == related_part.blob
        branch == Branch(rel.reltype)
        none == [has |-> FALSE, part |-> NoPart, count |-> count,
                 registered |-> FALSE]
    IN  IF branch = "image"
        THEN IF blob # None /\ related_part.content_type # ""
             THEN IF rel.fault = "part"
                  THEN [none EXCEPT !.count = count + 1]
                  ELSE [has |-> TRUE,
                        part |-> MkPart("target",
                                    PartName("/ppt/media/image",
                                             next_image_idx(prs),
                                             related_part.partname.ext),
                                    related_part.content_type, blob, {}),
                        count |-> count + 1, registered |-> FALSE]
             ELSE none
        ELSE IF blob # None
             THEN IF rel.fault = "part"
                  THEN [none EXCEPT !.count = count + 1]
                  ELSE [has |-> TRUE,
                        part |-> MkPart("target",
                                    PartName(CASE branch = "ole" ->
                                                    "/ppt/embeddings/oleObject"
                                               [] branch = "media" ->
                                                    "/ppt/media/media"
                                               [] OTHER -> "/ppt/other/object",
                                             count + 1, ExtOf(related_part)),
                                    related_part.content_type, blob, {}),
                        count |-> count + 1, registered |-> TRUE]
             ELSE none

\* part.relate_to(target, reltype): the rId of the relationship of that type
\* to that part, an existing one if there is one, else the next free rId.
\* The return value is the rId string itself (slide_processor.py:392).
relate_to(rels, target, reltype) ==
    IF \E k \in 1..Len(rels) : rels[k].target = target /\ rels[k].reltype = reltype
    THEN LET k == CHOOSE k \in 1..Len(rels) :
                      rels[k].target = target /\ rels[k].reltype = reltype
         IN  [rels |-> rels, rId |-> rels[k].rId]
    ELSE LET used == { rels[k].rId : k \in 1..Len(rels) }
             n == CHOOSE n \in 1..(Len(rels) + 1) :
                      n \notin used /\ \A m \in 1..(n - 1) : m \in used
         IN  [rels |-> Append(rels, [rId |-> n, reltype |-> reltype,
                                     target |-> target]),
              rId |-> n]

\* getattr(new_rel, 'rId', None) (line 300): new_rel is the string that
\* relate_to returned, and a string has no attribute rId.
GetattrRId(new_rel) == NoRId

\* The new slide of the target: the one add_slide appended last.
LastSlide(prs) == prs.slides[Len(prs.slides)]

\* Variant of CopyRel: the new slide is related to the original part even
\* when a new part was built.
CopyRelToOriginal(st, rel) ==
    IF rel.external THEN st
    ELSE IF IsSkipped(rel.reltype) THEN st
    ELSE LET made == BuildPart(st.prs, rel, st.count)
             prs1 == IF made.registered
                     THEN [st.prs EXCEPT !.parts =
                             { p \in @ : p.partname # made.part.partname }
                               \cup { made.part }]
                     ELSE st.prs
             new_rel == relate_to(LastSlide(prs1).rels, rel.target, rel.reltype)
         IN  IF rel.fault = "relate"
             THEN [st EXCEPT !.prs = prs1, !.count = made.count]
             ELSE [prs |-> [prs1 EXCEPT !.slides[Len(prs1.slides)].rels =
                                    new_rel.rels],
                   count |-> made.count,
                   old_to_new |-> (rel.rId :> GetattrRId(new_rel.rId))
                                      @@ st.old_to_new]

\* One turn of the relationship loop (lines 185-305) on
\* st = [prs, count, old_to_new].
CopyRel(st, rel) ==
    IF rel.external THEN st                      \* rel.target_part raises
    ELSE IF IsSkipped(rel.reltype) THEN st       \* continue
    ELSE LET made == BuildPart(st.prs, rel, st.count)
             prs1 == IF made.registered
                     THEN [st.prs EXCEPT !.parts =
                             { p \in @ : p.partname # made.part.partname }
                               \cup { made.part }]
                     ELSE st.prs
             target == IF made.has THEN made.part ELSE rel.target
             new_rel == relate_to(LastSlide(prs1).rels, target, rel.reltype)
         IN  IF rel.fault = "relate"
             THEN [st EXCEPT !.prs = prs1, !.count = made.count]
             ELSE [prs |-> [prs1 EXCEPT !.slides[Len(prs1.slides)].rels =
                                    new_rel.rels],
                   count |-> made.count,
                   old_to_new |-> (rel.rId :> GetattrRId(new_rel.rId))
                                      @@ st.old_to_new]

\* Variant of CopyRels: one handler around the whole loop, so that the first
\* relationship that raises ends it.
RECURSIVE CopyRelsUntilFailure(_, _)
CopyRelsUntilFailure(st, rels) ==
    IF rels = <<>> THEN st
    ELSE IF Head(rels).external \/ Head(rels).fault # "none" THEN st
    ELSE CopyRelsUntilFailure(CopyRel(st, Head(rels)), Tail(rels))

RECURSIVE CopyRels(_, _)
CopyRels(st, rels) ==
    IF rels = <<>> THEN st ELSE CopyRels(CopyRel(st, Head(rels)), Tail(rels))

\* The value one reference attribute ends with (lines 315-326): replaced
\* when it is a key of old_to_new whose value is truthy.
RemapAttr(val, old_to_new) ==
    IF val # NoRId /\ val \in DOMAIN old_to_new /\ old_to_new[val] # NoRId
    THEN old_to_new[val]
    ELSE val

\* The remap pass over the inserted elements (lines 310-328).
Remap(shapes, old_to_new) ==
    IF DOMAIN old_to_new = {} THEN shapes
    ELSE [k \in 1..Len(shapes) |->
            [shapes[k] EXCEPT !.embed = RemapAttr(@, old_to_new),
                              !.id = RemapAttr(@, old_to_new)]]

\* Variant of CopySlide: the slide is added to the target only once the shape
\* tree has been read.
CopySlideAddLast(source_slide, prs, count) ==
    IF ~source_slide.shapes_ok
    THEN [prs |-> prs, count |-> count, raised |-> TRUE]
    ELSE LET added == add_slide(prs)
             n == Len(added.slides)
             withShapes == [added EXCEPT !.slides[n].shapes =
                                            CopyShapes(source_slide.shapes)]
             st == CopyRels([prs |-> withShapes, count |-> count,
                             old_to_new |-> << >>],
                            source_slide.rels)
         IN  [prs |-> [st.prs EXCEPT !.slides[n].shapes =
                                        Remap(@, st.old_to_new)],
              count |-> st.count, raised |-> FALSE]

\* _copy_slide(source_slide, target_presentation, image_counter):
\* the target and the counter it leaves, and whether it raised.
\* Iterating source_slide.shapes (line 172) is outside every try block.
CopySlide(source_slide, prs, count) ==
    LET added == add_slide(prs)
        n == Len(added.slides)
    IN  IF ~source_slide.shapes_ok
        THEN [prs |-> added, count |-> count, raised |-> TRUE]
        ELSE LET withShapes == [added EXCEPT !.slides[n].shapes =
                                                CopyShapes(source_slide.shapes)]
                 st == CopyRels([prs |-> withShapes, count |-> count,
                                 old_to_new |-> << >>],
                                source_slide.rels)
             IN  [prs |-> [st.prs EXCEPT !.slides[n].shapes =
                                            Remap(@, st.old_to_new)],
                  count |-> st.count, raised |-> FALSE]

(***************************************************************************)
(* SlideAssembler.assemble                                                 *)
(***************************************************************************)
\* Path(p).exists() and Presentation(p).
Exists(file) == file.status # "missing"
Opens(file) == file.status = "ok"

UsesSlideFile(slide_data) ==
    /\ slide_data.slide_file_path # None
    /\ Exists(SlideFile(slide_data.slide_file_path))

\* Variant of SourceFile: the original deck is opened while it exists, the
\* standalone file only when the deck is gone.
SourceFileDeckFirst(slide_data) ==
    IF Exists(DeckFile(slide_data.deck_path))
    THEN DeckFile(slide_data.deck_path)
    ELSE IF UsesSlideFile(slide_data)
         THEN SlideFile(slide_data.slide_file_path)
         ELSE DeckFile(slide_data.deck_path)

\* The file lines 59-63 and 104-113 open for a slide: the standalone file
\* when its path is recorded and exists, else the original deck.
SourceFile(slide_data) ==
    IF UsesSlideFile(slide_data)
    THEN SlideFile(slide_data.slide_file_path)
    ELSE DeckFile(slide_data.deck_path)

\* The slides index lines 107 and 114 read (0-based).
SourceIndex(slide_data) ==
    IF UsesSlideFile(slide_data) THEN 0 ELSE slide_data.slide_index

\* Lines 104-115 raise nothing: the file opens and holds the slide.
SourceLoads(slide_data) ==
    /\ Opens(SourceFile(slide_data))
    /\ SourceIndex(slide_data) < Len(SourceFile(slide_data).prs.slides)

source_slide(slide_data) ==
    SourceFile(slide_data).prs.slides[SourceIndex(slide_data) + 1]

\* dimensions_count (lines 55-68) as the sequence of its items in insertion
\* order: a slide whose file does not open is passed over.
RECURSIVE CountDimensions(_, _)
CountDimensions(counted, slides) ==
    IF slides = <<>> THEN counted
    ELSE LET file == SourceFile(Head(slides))
             dim == << file.prs.slide_width, file.prs.slide_height >>
             next ==
                IF ~Opens(file) THEN counted
                ELSE IF \E k \in 1..Len(counted) : counted[k].dim = dim
                THEN [k \in 1..Len(counted) |->
                        IF counted[k].dim = dim
                        THEN [counted[k] EXCEPT !.n = @ + 1]
                        ELSE counted[k]]
                ELSE Append(counted, [dim |-> dim, n |-> 1])
         IN  CountDimensions(next, Tail(slides))

\* The 16:9 default of line 75.
DefaultDimensions == << 9144000, 5143500 >>

\* Variant of TargetDimensions: of the items with the highest count the
\* last one is kept.
TargetDimensionsLastSeen(slides) ==
    LET counted == CountDimensions(<<>>, slides)
    IN  IF counted = <<>> THEN DefaultDimensions
        ELSE LET k == CHOOSE k \in 1..Len(counted) :
                        /\ \A m \in 1..Len(counted) : counted[m].n <= counted[k].n
                        /\ \A m \in (k + 1)..Len(counted) :
                                counted[m].n < counted[k].n
             IN  counted[k].dim

\* Lines 71-75: max() keeps the first item with the highest count.
TargetDimensions(slides) ==
    LET counted == CountDimensions(<<>>, slides)
    IN  IF counted = <<>> THEN DefaultDimensions
        ELSE LET k == CHOOSE k \in 1..Len(counted) :
                        /\ \A m \in 1..Len(counted) : counted[m].n <= counted[k].n
                        /\ \A m \in 1..(k - 1) : counted[m].n < counted[k].n
             IN  counted[k].dim

\* The sort key of line 96, compared as Python compares tuples.
KeyLeq(a, b) ==
    \/ a.deck_path < b.deck_path
    \/ a.deck_path = b.deck_path /\ a.slide_index <= b.slide_index

\* Variant of InsertSorted: x goes in front of the elements with its own key.
RECURSIVE InsertBeforeEqual(_, _)
InsertBeforeEqual(sorted, x) ==
    IF sorted = <<>> THEN << x >>
    ELSE IF KeyLeq(Head(sorted), x) /\ ~KeyLeq(x, Head(sorted))
         THEN << Head(sorted) >> \o InsertBeforeEqual(Tail(sorted), x)
         ELSE << x >> \o sorted

\* sorted(): a stable sort; x goes behind every element whose key is not
\* greater than its own.
RECURSIVE InsertSorted(_, _)
InsertSorted(sorted, x) ==
    IF sorted = <<>> THEN << x >>
    ELSE IF KeyLeq(Head(sorted), x)
         THEN << Head(sorted) >> \o InsertSorted(Tail(sorted), x)
         ELSE << x >> \o sorted

RECURSIVE SortSlides(_)
SortSlides(slides) ==
    IF slides = <<>> THEN <<>>
    ELSE InsertSorted(SortSlides(SubSeq(slides, 1, Len(slides) - 1)),
                      slides[Len(slides)])

\* Variant of OrderSlides: a record given twice is kept once.
RECURSIVE Unique(_)
Unique(slides) ==
    IF slides = <<>> THEN <<>>
    ELSE LET rest == Unique(SubSeq(slides, 1, Len(slides) - 1))
             last == slides[Len(slides)]
         IN  IF \E k \in 1..Len(rest) : rest[k] = last THEN rest
             ELSE Append(rest, last)

OrderSlidesUnique(slides, preserve) ==
    IF preserve THEN Unique(slides) ELSE SortSlides(Unique(slides))

\* Lines 90-97.
OrderSlides(slides, preserve) ==
    IF preserve THEN slides ELSE SortSlides(slides)

\* The name of line 134; the timestamp is the time of the call.
DefaultFilename == "assembled_<timestamp>.pptx"

VARIABLES
    pc,               \* where the call is.  SlideAssembler.assemble: "called",
                      \* "fetch", "copy", "returned", "raised";
                      \* PDFAssembler.assemble: the same with the prefix pdf_
    slide_ids,        \* argument
    output_filename,  \* argument, None when omitted
    preserve_order,   \* argument
    lookups,          \* the ids passed to db.get_slide_by_id so far, in order
    slides_data,      \* line 43
    ordered_slides,   \* lines 90-97
    copied,           \* how many of ordered_slides the loop of line 99 has done
    new_prs,          \* the target package
    image_counter,    \* image_counter['count']
    added_for,        \* history: for each slide of new_prs, the position in
                      \* ordered_slides of the reference add_slide ran for
    log,              \* logger.warning (line 47), logger.error (line 125),
                      \* logger.debug (line 120): [level, pos]
    out_doc,          \* PDFAssembler: the pages of the output document
    exports,          \* the files of settings.exports_dir: [name, prs, pages]
    outcome,          \* what the call gave its caller
    calls,            \* two requests served at once: the locals of each call
    now,              \* the clock datetime.now() reads, in seconds
    decks,            \* the rows of table decks
    slides,           \* the rows of table slides
    slides_dir,       \* the files of settings.slides_dir
    thumbnails_dir,   \* the files of settings.thumbnails_dir
    ingests,          \* IngestEngine.ingest_file: the locals of each call
    sessions,         \* the rows of table sessions that have not expired
    request,          \* the HTTP request in the middleware
    response          \* what the client receives for it

\* The state of ingestion and of the HTTP layer, which the assemblers never
\* touch.
later == << removed, decks, slides, slides_dir, thumbnails_dir, ingests,
           sessions, request, response >>

vars == << pc, slide_ids, output_filename, preserve_order, lookups, slides_data,
           ordered_slides, copied, new_prs, image_counter, added_for, log,
           out_doc, exports, outcome, calls, now, later >>

RECURSIVE SeqsUpTo(_, _)
SeqsUpTo(S, n) ==
    IF n = 0 THEN { <<>> }
    ELSE SeqsUpTo(S, n - 1) \cup [1..n -> S]

NoOutcome == [kind |-> "none", exc |-> None, msg |-> None, path |-> None]

Raise(exc, msg) == [kind |-> "raised", exc |-> exc, msg |-> msg, path |-> None]

Return(path) == [kind |-> "returned", exc |-> None, msg |-> None, path |-> path]

\* No file is being ingested and nothing has been ingested.
IngestIdle ==
    /\ decks = {}
    /\ slides = {}
    /\ slides_dir = {}
    /\ thumbnails_dir = {}
    /\ ingests = <<>>

\* A request: request.url.path as the sequence of its characters, and the
\* value of the cookie session_id ("" when the cookie is not sent).
Request(path, cookie) == [path |-> path, cookie |-> cookie]

NoRequest == Request(<<>>, "")

\* A response: passed tells that it comes from call_next(request), the
\* routed application, and not from the middleware itself.
Response(status_code, content, location, passed) ==
    [status_code |-> status_code, content |-> content, location |-> location,
     passed |-> passed]

NoContent == [error |-> "", detail |-> ""]

NoResponse == Response(0, NoContent, "", FALSE)

\* No request is being served.
HttpIdle ==
    /\ sessions = {}
    /\ request = NoRequest
    /\ response = NoResponse

\* The call, to either assembler: any list of at most MaxSlideIds ids, either
\* order policy, the file name given or omitted.
Init ==
    /\ pc \in { "called", "pdf_called" }
    /\ slide_ids \in SeqsUpTo(SlideIds, MaxSlideIds)
    /\ output_filename \in { None, "deck.pptx" }
    /\ preserve_order \in BOOLEAN
    /\ lookups = <<>>
    /\ slides_data = <<>>
    /\ ordered_slides = <<>>
    /\ copied = 0
    /\ new_prs = NoPresentation
    /\ image_counter = 0
    /\ added_for = <<>>
    /\ log = <<>>
    /\ out_doc = <<>>
    /\ exports = {}
    /\ outcome = NoOutcome
    /\ calls = <<>>
    /\ now = 0
    /\ removed = {}
    /\ IngestIdle
    /\ HttpIdle

\* Lines 37-38.
RaiseNoSlides ==
    /\ UNCHANGED << calls, now, later >>
    /\ pc = "called"
    /\ slide_ids = <<>>
    /\ pc' = "raised"
    /\ outcome' = Raise("ValueError", "No slides provided for assembly")
    /\ UNCHANGED << slide_ids, output_filename, preserve_order, lookups,
                    slides_data, ordered_slides, copied, new_prs, image_counter,
                    added_for, log, out_doc, exports >>

\* Variant of Accept: the empty list is let through.
AcceptAny ==
    /\ UNCHANGED << calls, now, later >>
    /\ pc = "called"
    /\ pc' = "fetch"
    /\ UNCHANGED << slide_ids, output_filename, preserve_order, lookups,
                    slides_data, ordered_slides, copied, new_prs, image_counter,
                    added_for, log, out_doc, exports, outcome >>

Accept ==
    /\ UNCHANGED << calls, now, later >>
    /\ pc = "called"
    /\ slide_ids # <<>>
    /\ pc' = "fetch"
    /\ UNCHANGED << slide_ids, output_filename, preserve_order, lookups,
                    slides_data, ordered_slides, copied, new_prs, image_counter,
                    added_for, log, out_doc, exports, outcome >>

\* Lines 44-49, one turn: the reference resolves.
FetchFound ==
    /\ UNCHANGED << calls, now, later >>
    /\ pc = "fetch"
    /\ Len(lookups) < Len(slide_ids)
    /\ LET slide_id == slide_ids[Len(lookups) + 1]
           slide == get_slide_by_id(slide_id)
       IN  /\ Found(slide)
           /\ lookups' = Append(lookups, slide_id)
           /\ slides_data' = Append(slides_data, slide)
    /\ UNCHANGED << pc, slide_ids, output_filename, preserve_order,
                    ordered_slides, copied, new_prs, image_counter, added_for,
                    log, out_doc, exports, outcome >>

\* Lines 44-48, one turn: the reference does not resolve.
FetchNotFound ==
    /\ UNCHANGED << calls, now, later >>
    /\ pc = "fetch"
    /\ Len(lookups) < Len(slide_ids)
    /\ LET slide_id == slide_ids[Len(lookups) + 1]
       IN  /\ ~Found(get_slide_by_id(slide_id))
           /\ lookups' = Append(lookups, slide_id)
           /\ log' = Append(log, [level |-> "warning", pos |-> Len(lookups) + 1])
    /\ UNCHANGED << pc, slide_ids, output_filename, preserve_order, slides_data,
                    ordered_slides, copied, new_prs, image_counter, added_for,
                    out_doc, exports, outcome >>

\* Lines 51-52.
RaiseNoValid ==
    /\ UNCHANGED << calls, now, later >>
    /\ pc = "fetch"
    /\ Len(lookups) = Len(slide_ids)
    /\ slides_data = <<>>
    /\ pc' = "raised"
    /\ outcome' = Raise("ValueError", "No valid slides found")
    /\ UNCHANGED << slide_ids, output_filename, preserve_order, lookups,
                    slides_data, ordered_slides, copied, new_prs, image_counter,
                    added_for, log, out_doc, exports >>

\* Variant of Prepare: the check of line 51 is missing.
PrepareUnchecked ==
    /\ UNCHANGED << calls, now, later >>
    /\ pc = "fetch"
    /\ Len(lookups) = Len(slide_ids)
    /\ LET target_dimensions == TargetDimensions(slides_data)
       IN  new_prs' = NewPresentation(target_dimensions[1], target_dimensions[2])
    /\ image_counter' = 0
    /\ ordered_slides' = OrderSlides(slides_data, preserve_order)
    /\ pc' = "copy"
    /\ UNCHANGED << slide_ids, output_filename, preserve_order, lookups,
                    slides_data, copied, added_for, log, out_doc, exports,
                    outcome >>

\* Lines 54-97: the canvas, the empty target, the counter, the order.
Prepare ==
    /\ UNCHANGED << calls, now, later >>
    /\ pc = "fetch"
    /\ Len(lookups) = Len(slide_ids)
    /\ slides_data # <<>>
    /\ LET target_dimensions == TargetDimensions(slides_data)
       IN  new_prs' = NewPresentation(target_dimensions[1], target_dimensions[2])
    /\ image_counter' = 0
    /\ ordered_slides' = OrderSlides(slides_data, preserve_order)
    /\ pc' = "copy"
    /\ UNCHANGED << slide_ids, output_filename, preserve_order, lookups,
                    slides_data, copied, added_for, log, out_doc, exports, outcome >>

\* Variant of CopyLoadFails: the error of a slide is not caught.
CopyLoadFailsPropagates ==
    /\ UNCHANGED << calls, now, later >>
    /\ pc = "copy"
    /\ copied < Len(ordered_slides)
    /\ ~SourceLoads(ordered_slides[copied + 1])
    /\ pc' = "raised"
    /\ outcome' = Raise("Exception", "source unavailable")
    /\ UNCHANGED << slide_ids, output_filename, preserve_order, lookups,
                    slides_data, ordered_slides, copied, new_prs, image_counter,
                    added_for, log, out_doc, exports >>

\* Lines 99-129, one turn: opening the source or reading the slide raises;
\* the error is logged and the loop goes on.
CopyLoadFails ==
    /\ UNCHANGED << calls, now, later >>
    /\ pc = "copy"
    /\ copied < Len(ordered_slides)
    /\ ~SourceLoads(ordered_slides[copied + 1])
    /\ copied' = copied + 1
    /\ log' = Append(log, [level |-> "error", pos |-> copied + 1])
    /\ UNCHANGED << pc, slide_ids, output_filename, preserve_order, lookups,
                    slides_data, ordered_slides, new_prs, image_counter,
                    added_for, out_doc, exports, outcome >>

\* Lines 99-129, one turn: _copy_slide raises; what it did to the target
\* stays, the error is logged and the loop goes on.
CopyRaises ==
    /\ UNCHANGED << calls, now, later >>
    /\ pc = "copy"
    /\ copied < Len(ordered_slides)
    /\ SourceLoads(ordered_slides[copied + 1])
    /\ LET done == CopySlide(source_slide(ordered_slides[copied + 1]), new_prs,
                             image_counter)
       IN  /\ done.raised
           /\ new_prs' = done.prs
           /\ image_counter' = done.count
    /\ added_for' = Append(added_for, copied + 1)
    /\ copied' = copied + 1
    /\ log' = Append(log, [level |-> "error", pos |-> copied + 1])
    /\ UNCHANGED << pc, slide_ids, output_filename, preserve_order, lookups,
                    slides_data, ordered_slides, out_doc, exports, outcome >>

\* Lines 99-122, one turn: the slide is copied.
CopyDone ==
    /\ UNCHANGED << calls, now, later >>
    /\ pc = "copy"
    /\ copied < Len(ordered_slides)
    /\ SourceLoads(ordered_slides[copied + 1])
    /\ LET done == CopySlide(source_slide(ordered_slides[copied + 1]), new_prs,
                             image_counter)
       IN  /\ ~done.raised
           /\ new_prs' = done.prs
           /\ image_counter' = done.count
    /\ added_for' = Append(added_for, copied + 1)
    /\ copied' = copied + 1
    /\ log' = Append(log, [level |-> "debug", pos |-> copied + 1])
    /\ UNCHANGED << pc, slide_ids, output_filename, preserve_order, lookups,
                    slides_data, ordered_slides, out_doc, exports, outcome >>

\* Lines 131-145: the file of that name is written (replacing one of the
\* same name) and its path returned.
Save ==
    /\ UNCHANGED << calls, now, later >>
    /\ pc = "copy"
    /\ copied = Len(ordered_slides)
    /\ LET name == IF output_filename # None THEN output_filename
                   ELSE DefaultFilename
       IN  /\ exports' = { f \in exports : f.name # name }
                            \cup { [name |-> name, prs |-> new_prs] }
           /\ outcome' = Return(name)
    /\ pc' = "returned"
    /\ UNCHANGED << slide_ids, output_filename, preserve_order, lookups,
                    slides_data, ordered_slides, copied, new_prs, image_counter,
                    added_for, log, out_doc >>

(***************************************************************************)
(* PDFAssembler.assemble (src/slidex/core/pdf_assembler.py)                *)
(***************************************************************************)
DefaultPdfFilename == "assembled_<timestamp>.pdf"

\* Line 66 lets the slide through: a page path is recorded and exists.
HasPdf(slide_data) ==
    /\ slide_data.slide_pdf_path # None
    /\ Exists(PdfFile(slide_data.slide_pdf_path))

\* Lines 33-34.
PdfRaiseNoSlides ==
    /\ UNCHANGED << calls, now, later >>
    /\ pc = "pdf_called"
    /\ slide_ids = <<>>
    /\ pc' = "pdf_raised"
    /\ outcome' = Raise("ValueError", "No slides provided")
    /\ UNCHANGED << slide_ids, output_filename, preserve_order, lookups,
                    slides_data, ordered_slides, copied, new_prs, image_counter,
                    added_for, log, out_doc, exports >>

PdfAccept ==
    /\ UNCHANGED << calls, now, later >>
    /\ pc = "pdf_called"
    /\ slide_ids # <<>>
    /\ pc' = "pdf_fetch"
    /\ UNCHANGED << slide_ids, output_filename, preserve_order, lookups,
                    slides_data, ordered_slides, copied, new_prs, image_counter,
                    added_for, log, out_doc, exports, outcome >>

\* Lines 40-45, one turn: the reference resolves.
PdfFetchFound ==
    /\ UNCHANGED << calls, now, later >>
    /\ pc = "pdf_fetch"
    /\ Len(lookups) < Len(slide_ids)
    /\ LET slide_id == slide_ids[Len(lookups) + 1]
           slide == get_slide_by_id(slide_id)
       IN  /\ Found(slide)
           /\ lookups' = Append(lookups, slide_id)
           /\ slides_data' = Append(slides_data, slide)
    /\ UNCHANGED << pc, slide_ids, output_filename, preserve_order,
                    ordered_slides, copied, new_prs, image_counter, added_for,
                    log, out_doc, exports, outcome >>

\* Lines 40-44, one turn: the reference does not resolve.
PdfFetchNotFound ==
    /\ UNCHANGED << calls, now, later >>
    /\ pc = "pdf_fetch"
    /\ Len(lookups) < Len(slide_ids)
    /\ LET slide_id == slide_ids[Len(lookups) + 1]
       IN  /\ ~Found(get_slide_by_id(slide_id))
           /\ lookups' = Append(lookups, slide_id)
           /\ log' = Append(log, [level |-> "warning", pos |-> Len(lookups) + 1])
    /\ UNCHANGED << pc, slide_ids, output_filename, preserve_order, slides_data,
                    ordered_slides, copied, new_prs, image_counter, added_for,
                    out_doc, exports, outcome >>

\* Lines 47-48.
PdfRaiseNoValid ==
    /\ UNCHANGED << calls, now, later >>
    /\ pc = "pdf_fetch"
    /\ Len(lookups) = Len(slide_ids)
    /\ slides_data = <<>>
    /\ pc' = "pdf_raised"
    /\ outcome' = Raise("ValueError", "No valid slides found")
    /\ UNCHANGED << slide_ids, output_filename, preserve_order, lookups,
                    slides_data, ordered_slides, copied, new_prs, image_counter,
                    added_for, log, out_doc, exports >>

\* Lines 50-60: the order and the empty output document.
PdfOrder ==
    /\ UNCHANGED << calls, now, later >>
    /\ pc = "pdf_fetch"
    /\ Len(lookups) = Len(slide_ids)
    /\ slides_data # <<>>
    /\ ordered_slides' = OrderSlides(slides_data, preserve_order)
    /\ out_doc' = <<>>
    /\ pc' = "pdf_add"
    /\ UNCHANGED << slide_ids, output_filename, preserve_order, lookups,
                    slides_data, copied, new_prs, image_counter, added_for, log,
                    exports, outcome >>

\* Lines 63-70, one turn: no page path, or no file at it.
PdfSkipMissing ==
    /\ UNCHANGED << calls, now, later >>
    /\ pc = "pdf_add"
    /\ copied < Len(ordered_slides)
    /\ ~HasPdf(ordered_slides[copied + 1])
    /\ copied' = copied + 1
    /\ log' = Append(log, [level |-> "warning", pos |-> copied + 1])
    /\ UNCHANGED << pc, slide_ids, output_filename, preserve_order, lookups,
                    slides_data, ordered_slides, new_prs, image_counter,
                    added_for, out_doc, exports, outcome >>

\* Lines 72-85, one turn: fitz.open raises.
PdfOpenFails ==
    /\ UNCHANGED << calls, now, later >>
    /\ pc = "pdf_add"
    /\ copied < Len(ordered_slides)
    /\ HasPdf(ordered_slides[copied + 1])
    /\ ~Opens(PdfFile(ordered_slides[copied + 1].slide_pdf_path))
    /\ copied' = copied + 1
    /\ log' = Append(log, [level |-> "error", pos |-> copied + 1])
    /\ UNCHANGED << pc, slide_ids, output_filename, preserve_order, lookups,
                    slides_data, ordered_slides, new_prs, image_counter,
                    added_for, out_doc, exports, outcome >>

\* Variant of PdfAddPage: page 0 is inserted without looking at page_count.
PdfAddPageUnchecked ==
    /\ UNCHANGED << calls, now, later >>
    /\ pc = "pdf_add"
    /\ copied < Len(ordered_slides)
    /\ HasPdf(ordered_slides[copied + 1])
    /\ LET pdf_path == ordered_slides[copied + 1].slide_pdf_path
           src_doc == PdfFile(pdf_path)
       IN  /\ Opens(src_doc)
           /\ out_doc' = Append(out_doc, [from |-> pdf_path, page |-> 0])
           /\ added_for' = Append(added_for, copied + 1)
           /\ log' = Append(log, [level |-> "debug", pos |-> copied + 1])
    /\ copied' = copied + 1
    /\ UNCHANGED << pc, slide_ids, output_filename, preserve_order, lookups,
                    slides_data, ordered_slides, new_prs, image_counter,
                    exports, outcome >>

\* Lines 72-80, one turn: page 0 of the document is inserted, when it has
\* one.
PdfAddPage ==
    /\ UNCHANGED << calls, now, later >>
    /\ pc = "pdf_add"
    /\ copied < Len(ordered_slides)
    /\ HasPdf(ordered_slides[copied + 1])
    /\ LET pdf_path == ordered_slides[copied + 1].slide_pdf_path
           src_doc == PdfFile(pdf_path)
       IN  /\ Opens(src_doc)
           /\ IF src_doc.page_count > 0
              THEN /\ out_doc' = Append(out_doc, [from |-> pdf_path, page |-> 0])
                   /\ added_for' = Append(added_for, copied + 1)
                   /\ log' = Append(log, [level |-> "debug", pos |-> copied + 1])
              ELSE UNCHANGED << out_doc, added_for, log >>
    /\ copied' = copied + 1
    /\ UNCHANGED << pc, slide_ids, output_filename, preserve_order, lookups,
                    slides_data, ordered_slides, new_prs, image_counter,
                    exports, outcome >>

\* Lines 87-101.
\* Line 96 for a document without pages: Document.save raises
\* ValueError("cannot save with zero pages"), and nothing is written.
PdfSaveRaises ==
    /\ UNCHANGED << calls, now, later >>
    /\ pc = "pdf_add"
    /\ copied = Len(ordered_slides)
    /\ out_doc = <<>>
    /\ pc' = "pdf_raised"
    /\ outcome' = Raise("ValueError", "cannot save with zero pages")
    /\ UNCHANGED << slide_ids, output_filename, preserve_order, lookups,
                    slides_data, ordered_slides, copied, new_prs, image_counter,
                    added_for, log, out_doc, exports >>

PdfSave ==
    /\ UNCHANGED << calls, now, later >>
    /\ pc = "pdf_add"
    /\ copied = Len(ordered_slides)
    /\ out_doc # <<>>
    /\ LET name == IF output_filename # None THEN output_filename
                   ELSE DefaultPdfFilename
       IN  /\ exports' = { f \in exports : f.name # name }
                            \cup { [name |-> name, prs |-> NoPresentation,
                                    pages |-> out_doc] }
           /\ outcome' = Return(name)
    /\ pc' = "pdf_returned"
    /\ UNCHANGED << slide_ids, output_filename, preserve_order, lookups,
                    slides_data, ordered_slides, copied, new_prs, image_counter,
                    added_for, log, out_doc >>

Next ==
    \/ RaiseNoSlides
    \/ Accept
    \/ FetchFound
    \/ FetchNotFound
    \/ RaiseNoValid
    \/ Prepare
    \/ CopyLoadFails
    \/ CopyRaises
    \/ CopyDone
    \/ Save
    \/ PdfRaiseNoSlides
    \/ PdfAccept
    \/ PdfFetchFound
    \/ PdfFetchNotFound
    \/ PdfRaiseNoValid
    \/ PdfOrder
    \/ PdfSkipMissing
    \/ PdfOpenFails
    \/ PdfAddPage
    \/ PdfSaveRaises
    \/ PdfSave

Spec == Init /\ [][Next]_vars

(***************************************************************************)
(* Properties                                                              *)
(***************************************************************************)
\* The file the call returned: the package or document saved under the
\* returned name.
Output == CHOOSE f \in exports : f.name = outcome.path

RIds(slide) == { slide.rels[k].rId : k \in 1..Len(slide.rels) }

Resolved(ids) == { i \in 1..Len(ids) : Found(get_slide_by_id(ids[i])) }

\* The records of the ids that resolve, in the order of the ids.
RECURSIVE ResolvedOf(_)
ResolvedOf(ids) ==
    IF ids = <<>> THEN <<>>
    ELSE IF Found(get_slide_by_id(Head(ids)))
         THEN << get_slide_by_id(Head(ids)) >> \o ResolvedOf(Tail(ids))
         ELSE ResolvedOf(Tail(ids))

ErrorAt(j) == \E n \in 1..Len(log) : log[n].level = "error" /\ log[n].pos = j

\* The reference each slide (or page) of the output was added for.
OutputIds == [k \in 1..Len(added_for) |-> ordered_slides[added_for[k]].slide_id]

Occurrences(seq, x) == Cardinality({ i \in 1..Len(seq) : seq[i] = x })

\* The source of the slide opens and its copy raises nothing.
CopiesCleanly(slide_id) ==
    /\ slide_id \in KnownIds
    /\ SourceLoads(SlideRow(slide_id))
    /\ source_slide(SlideRow(slide_id)).shapes_ok

TemplateTypes == { "slideLayout", "slideMaster", "theme", "notesMaster" }

\* C1 (as claimed): after assemble, every r:embed and r:id attribute of
\* every output slide's shape tree is an identifier of that slide's own
\* relationship table.
C1_ReferencesResolve ==
    pc = "returned" =>
        \A s \in 1..Len(Output.prs.slides) :
            LET slide == Output.prs.slides[s]
            IN  \A k \in 1..Len(slide.shapes) :
                    /\ slide.shapes[k].embed # NoRId =>
                            slide.shapes[k].embed \in RIds(slide)
                    /\ slide.shapes[k].id # NoRId =>
                            slide.shapes[k].id \in RIds(slide)

\* C2 (as claimed): at no time does a slide of the target relate to a
\* template part other than the target's own blank layout, nor to a source
\* part from which a layout, master, theme or notes master of the source
\* package is reachable.
C2_NoSourceTemplate ==
    \A s \in 1..Len(new_prs.slides) :
        \A k \in 1..Len(new_prs.slides[s].rels) :
            LET rel == new_prs.slides[s].rels[k]
            IN  /\ rel.reltype \in TemplateTypes => rel.target = BlankLayout
                /\ rel.target.pkg # "target" =>
                        rel.target.links \cap TemplateTypes = {}

C4_FailedSlideAbsent ==
    pc = "returned" =>
        /\ copied = Len(ordered_slides)
        /\ \A j \in 1..Len(ordered_slides) :
                ErrorAt(j) => \A k \in 1..Len(added_for) : added_for[k] # j

\* C5: a reference gives no slide only if its processing raised, and every
\* id whose source loads and whose copy raises nothing has exactly one
\* output slide per occurrence in the input.
C5_MissingOnlyByError ==
    pc = "returned" =>
        /\ Len(Output.prs.slides) = Len(added_for)
        /\ \A j \in 1..Len(ordered_slides) :
                (\A k \in 1..Len(added_for) : added_for[k] # j) => ErrorAt(j)
        /\ \A x \in KnownIds :
                CopiesCleanly(x) =>
                    Occurrences(OutputIds, x) = Occurrences(slide_ids, x)

\* C5 witness: a returned call with a cleanly copied id given twice and a
\* reference that failed.
C5_Witness ==
    /\ pc = "returned"
    /\ \E x \in KnownIds : CopiesCleanly(x) /\ Occurrences(OutputIds, x) = 2
    /\ \E j \in 1..Len(ordered_slides) : ErrorAt(j)

\* C6: the call raises only for an empty list or when no reference
\* resolves; otherwise every turn of the copy loop, failed or not, leaves the
\* call in the loop, and after the last turn the output is saved and its
\* path returned.
C6_RaisesOnlyListLevel ==
    /\ pc = "raised" => slide_ids = <<>> \/ Resolved(slide_ids) = {}
    /\ (pc = "called" /\ slide_ids # <<>>) => ENABLED Accept
    /\ (pc = "fetch" /\ Len(lookups) = Len(slide_ids)
            /\ Resolved(slide_ids) # {}) =>
                    slides_data # <<>> /\ ~ENABLED RaiseNoValid
    /\ pc = "copy" =>
            /\ Resolved(slide_ids) # {}
            /\ copied <= Len(ordered_slides)
            /\ Len(log) >= copied
            /\ copied = Len(ordered_slides) => ENABLED Save
            /\ (copied < Len(ordered_slides)
                  /\ ~SourceLoads(ordered_slides[copied + 1])) =>
                    ENABLED CopyLoadFails
    /\ pc = "returned" =>
            /\ Resolved(slide_ids) # {}
            /\ copied = Len(ordered_slides)
            /\ outcome.kind = "returned"
            /\ \E f \in exports : f.name = outcome.path /\ f.prs = new_prs

\* C6 witness: a call that returned although every slide failed, two or
\* more of them.
C6_Witness ==
    /\ pc = "returned"
    /\ Len(ordered_slides) >= 2
    /\ \A j \in 1..Len(ordered_slides) : ErrorAt(j)

\* C7: when no reference of a non-empty list resolves, the call ends by
\* raising "No valid slides found"; no target package is created or saved
\* and nothing is written to the exports.
C7_NoValidSlides ==
    (slide_ids # <<>> /\ Resolved(slide_ids) = {}) =>
        /\ exports = {}
        /\ new_prs = NoPresentation
        /\ out_doc = <<>>
        /\ pc \in { "called", "fetch", "raised",
                     "pdf_called", "pdf_fetch", "pdf_raised" }
        /\ pc \in { "raised", "pdf_raised" } =>
                outcome = Raise("ValueError", "No valid slides found")
        /\ pc \notin { "raised", "pdf_raised" } => ENABLED Next

\* C7 witness: the call raised after looking up two or more ids.
C7_Witness ==
    /\ pc = "raised"
    /\ Len(lookups) >= 2
    /\ outcome.msg = "No valid slides found"

\* C8: with an empty list the call ends by raising its no-slides error,
\* which differs from the error for no valid slide, with no lookup made
\* and nothing written.
C8_NoSlidesProvided ==
    slide_ids = <<>> =>
        /\ lookups = <<>>
        /\ exports = {}
        /\ new_prs = NoPresentation
        /\ pc \in { "called", "pdf_called" } => ENABLED Next
        /\ pc \notin { "called", "pdf_called" } =>
                /\ pc \in { "raised", "pdf_raised" }
                /\ outcome # Raise("ValueError", "No valid slides found")
                /\ pc = "raised" =>
                        outcome = Raise("ValueError",
                                        "No slides provided for assembly")
                /\ pc = "pdf_raised" =>
                        outcome = Raise("ValueError", "No slides provided")

\* C8 witness: the call with the empty list has raised.
C8_Witness == pc = "raised" /\ slide_ids = <<>>

\* C9 (as claimed): with preserve_order the output slides are exactly the
\* references of the input that resolved and did not fail, in input order,
\* once per occurrence.
C9_InputOrder ==
    (pc = "returned" /\ preserve_order) =>
        /\ Len(Output.prs.slides) = Len(added_for)
        /\ OutputIds = SelectSeq(slide_ids, CopiesCleanly)

\* The records the slides (or pages) of the output were made from.
OutputRecords == [k \in 1..Len(added_for) |-> ordered_slides[added_for[k]]]

SameKey(a, b) == a.deck_path = b.deck_path /\ a.slide_index = b.slide_index

Reorderings(n) ==
    { p \in [1..n -> 1..n] : \A i, j \in 1..n : i # j => p[i] # p[j] }

\* C10: without preserve_order the output is in ascending order of
\* (deck_path, slide_index); records with equal keys keep their input order;
\* and every permutation of the input whose resolved references have
\* distinct keys gives the same order.
C10_SortedOrder ==
    (pc \in { "returned", "pdf_returned" } /\ ~preserve_order) =>
        /\ \A a, b \in 1..Len(added_for) :
                a < b => /\ added_for[a] < added_for[b]
                         /\ KeyLeq(OutputRecords[a], OutputRecords[b])
        /\ \A n \in 1..Len(slides_data) :
                LET InClass(r) == SameKey(r, slides_data[n])
                IN  SelectSeq(ordered_slides, InClass)
                        = SelectSeq(slides_data, InClass)
        /\ \A p \in Reorderings(Len(slide_ids)) :
                LET ids == [i \in 1..Len(slide_ids) |-> slide_ids[p[i]]]
                IN  (\A i, j \in 1..Len(slides_data) :
                        SameKey(slides_data[i], slides_data[j])
                            => slides_data[i] = slides_data[j])
                    => OrderSlides(ResolvedOf(ids), FALSE) = ordered_slides

\* C10 witness: an output of three or more slides that the sort reordered,
\* two of them from different records with equal keys.
C10_Witness ==
    /\ pc = "returned"
    /\ ~preserve_order
    /\ Len(added_for) >= 3
    /\ ordered_slides # slides_data
    /\ \E a, b \in 1..Len(added_for) :
            /\ a < b
            /\ OutputRecords[a] # OutputRecords[b]
            /\ SameKey(OutputRecords[a], OutputRecords[b])

\* The canvas of the target package.
Canvas == << new_prs.slide_width, new_prs.slide_height >>

\* The positions of slides_data whose file opens, and the pair read there.
Readable == { i \in 1..Len(slides_data) : Opens(SourceFile(slides_data[i])) }

DimAt(i) ==
    << SourceFile(slides_data[i]).prs.slide_width,
       SourceFile(slides_data[i]).prs.slide_height >>

Tally(dim) == Cardinality({ i \in Readable : DimAt(i) = dim })

FirstSeen(dim) ==
    CHOOSE i \in Readable :
        DimAt(i) = dim /\ \A j \in Readable : DimAt(j) = dim => i <= j

\* C11: the canvas is the pair read from the largest number of resolved
\* slides; of the pairs with the largest number the one first seen in the
\* order of the references, whatever preserve_order is; and the default
\* 9144000 x 5143500 when no pair could be read.
C11_CanvasByMajority ==
    pc \in { "copy", "returned" } =>
        IF Readable = {}
        THEN Canvas = << 9144000, 5143500 >>
        ELSE /\ \E i \in Readable : DimAt(i) = Canvas
             /\ \A j \in Readable :
                    \/ Tally(DimAt(j)) < Tally(Canvas)
                    \/ /\ Tally(DimAt(j)) = Tally(Canvas)
                       /\ FirstSeen(Canvas) <= FirstSeen(DimAt(j))

\* C11 witness: a returned call, sorted, with two pairs read equally often,
\* where the first reference given is not the first slide of the output.
C11_Witness ==
    /\ pc = "returned"
    /\ ~preserve_order
    /\ \E i, j \in Readable :
            /\ DimAt(i) # DimAt(j)
            /\ Tally(DimAt(i)) = Tally(DimAt(j))
    /\ 1 \in Readable
    /\ Canvas = DimAt(1)
    /\ Opens(SourceFile(ordered_slides[1]))
    /\ Canvas # << SourceFile(ordered_slides[1]).prs.slide_width,
                   SourceFile(ordered_slides[1]).prs.slide_height >>

\* The standalone file of a record opens; the original deck opens and holds
\* the slide at the record's index.
StandaloneOpens(slide_data) ==
    /\ slide_data.slide_file_path # None
    /\ Opens(SlideFile(slide_data.slide_file_path))

DeckHolds(slide_data) ==
    /\ Opens(DeckFile(slide_data.deck_path))
    /\ slide_data.slide_index < Len(DeckFile(slide_data.deck_path).prs.slides)

\* The positions of ordered_slides a slide was added for.
AddedPositions == { added_for[k] : k \in 1..Len(added_for) }

\* C12 (as claimed): a slide is unavailable, and skipped, only if neither
\* its standalone file nor its original deck can be opened; a standalone
\* file that exists but does not open still leads to the deck being tried.
C12_DeckTriedSecond ==
    pc \in { "copy", "returned" } =>
        \A j \in 1..copied :
            j \notin AddedPositions =>
                /\ ~StandaloneOpens(ordered_slides[j])
                /\ ~DeckHolds(ordered_slides[j])

\* The part names lines 235, 262 and 283 mint from the counter.
MintedPrefixes ==
    { "/ppt/embeddings/oleObject", "/ppt/media/media", "/ppt/other/object" }

IsMinted(part) ==
    part.pkg = "target" /\ part.partname.prefix \in MintedPrefixes

\* The relationships of the output slides, as << slide, position >>.
OutputRels(prs) ==
    UNION { { << n, k >> : k \in 1..Len(prs.slides[n].rels) } :
            n \in 1..Len(prs.slides) }

SourceOf(n) == source_slide(ordered_slides[added_for[n]])

\* The relationships of a source slide whose copy leaves new_part None, so
\* that line 298 relates the original part.
FallsBack(rel) ==
    /\ ~rel.external
    /\ ~IsSkipped(rel.reltype)
    /\ ~BuildPart(new_prs, rel, 0).has

\* C14 (as claimed): every relationship of every output slide targets a part
\* of the target package, never a part of a source package.
C14_NoSharedPart ==
    pc \in { "copy", "returned" } =>
        \A a \in OutputRels(new_prs) :
            new_prs.slides[a[1]].rels[a[2]].target.pkg = "target"

\* C14 (amended): a relationship of an output slide targets a part of a
\* source package only where the copy of that part gave no new part (no
\* retrievable blob, or the copy raised) and the original was related as the
\* last resort; every other relationship targets a part of the target
\* package, the layout relationship the target's own blank layout.
C14_SharedOnlyAsLastResort ==
    pc \in { "copy", "returned" } =>
        \A a \in OutputRels(new_prs) :
            LET out == new_prs.slides[a[1]].rels[a[2]]
                src == SourceOf(a[1])
            IN  /\ out.reltype = "slideLayout" => out.target = BlankLayout
                /\ out.target.pkg # "target" =>
                        \E k \in 1..Len(src.rels) :
                            /\ FallsBack(src.rels[k])
                            /\ src.rels[k].target = out.target
                            /\ src.rels[k].reltype = out.reltype
                /\ out.target.pkg = "target" =>
                        \/ out.target = BlankLayout
                        \/ \E k \in 1..Len(src.rels) :
                                /\ ~FallsBack(src.rels[k])
                                /\ ~src.rels[k].external
                                /\ src.rels[k].reltype = out.reltype
                                /\ src.rels[k].target.blob = out.target.blob

\* C14 witness: a returned output with a slide that has both a relationship
\* to a part of a source package and one to a newly built part.
C14_Witness ==
    /\ pc = "returned"
    /\ \E a, b \in OutputRels(new_prs) :
            /\ a[1] = b[1]
            /\ new_prs.slides[a[1]].rels[a[2]].target.pkg \notin { "target", "none" }
            /\ new_prs.slides[a[1]].rels[a[2]].reltype = "image"
            /\ IsMinted(new_prs.slides[b[1]].rels[b[2]].target)

\* The copy of the part of a relationship fails: rel.target_part raises, the
\* part exposes no blob or no content type, building the new part raises, or
\* relate_to raises.
PartCopyFails(rel) ==
    \/ rel.external
    \/ ~IsSkipped(rel.reltype) /\ (rel.fault # "none" \/ FallsBack(rel))

ShapeNames(shapes) == [k \in 1..Len(shapes) |-> shapes[k].name]

\* C15: a failure on the part of one relationship does not abort the slide
\* copy: no error is logged for the slide, every shape copied before stays in
\* the output slide in its place, and every other relationship of the slide
\* that is neither skipped nor failing is still given a newly built part.
C15_PartFailureIsLocal ==
    pc \in { "copy", "returned" } =>
        \A n \in 1..Len(new_prs.slides) :
            LET src == SourceOf(n)
                out == new_prs.slides[n]
            IN  src.shapes_ok =>
                    /\ ~ErrorAt(added_for[n])
                    /\ ShapeNames(out.shapes) =
                            ShapeNames(SelectSeq(src.shapes,
                                                 LAMBDA sh : sh.cloneable))
                    /\ \A k \in 1..Len(src.rels) :
                            (~IsSkipped(src.rels[k].reltype)
                                /\ ~PartCopyFails(src.rels[k])) =>
                              \E m \in 1..Len(out.rels) :
                                /\ out.rels[m].reltype = src.rels[k].reltype
                                /\ out.rels[m].target.pkg = "target"
                                /\ out.rels[m].target.blob =
                                        src.rels[k].target.blob

\* C15 witness: a returned output slide whose source has a relationship
\* whose part copy fails and, behind it, one whose part was newly built and
\* related, with the shapes of the source in the output slide.
C15_Witness ==
    /\ pc = "returned"
    /\ \E n \in 1..Len(new_prs.slides) :
            /\ SourceOf(n).shapes_ok
            /\ Len(new_prs.slides[n].shapes) >= 3
            /\ \E k, j \in 1..Len(SourceOf(n).rels) :
                    /\ k < j
                    /\ PartCopyFails(SourceOf(n).rels[k])
                    /\ SourceOf(n).rels[k].fault = "part"
                    /\ ~IsSkipped(SourceOf(n).rels[j].reltype)
                    /\ ~PartCopyFails(SourceOf(n).rels[j])
                    /\ \E m \in 1..Len(new_prs.slides[n].rels) :
                            /\ IsMinted(new_prs.slides[n].rels[m].target)
                            /\ new_prs.slides[n].rels[m].target.blob =
                                    SourceOf(n).rels[j].target.blob

\* C16: a call with a single reference whose source slide loads gives an
\* output of one slide; when the shapes of the source can be read it holds
\* the shapes of the source whose copy did not fail, each once, in the
\* order of the source, and no shape of the target's layout.
C16_ShapesOfSingleSlide ==
    (pc = "returned" /\ Len(slide_ids) = 1
        /\ SourceLoads(ordered_slides[1])) =>
        /\ Len(Output.prs.slides) = 1
        /\ LET src == source_slide(ordered_slides[1])
               out == Output.prs.slides[1]
               failed == { k \in 1..Len(src.shapes) : ~src.shapes[k].cloneable }
           IN  IF src.shapes_ok
               THEN /\ Len(out.shapes) = Len(src.shapes) - Cardinality(failed)
                    /\ \E f \in [1..Len(out.shapes) -> 1..Len(src.shapes)] :
                          /\ \A k \in 1..Len(out.shapes) :
                                /\ f[k] \notin failed
                                /\ out.shapes[k].name = src.shapes[f[k]].name
                          /\ \A k, m \in 1..Len(out.shapes) :
                                k < m => f[k] < f[m]
               ELSE out.shapes = <<>> /\ ErrorAt(1)

\* C16 witness: a single reference whose source has four shapes, one of
\* which cannot be copied, with an output slide of three shapes.
C16_Witness ==
    /\ pc = "returned"
    /\ Len(slide_ids) = 1
    /\ SourceLoads(ordered_slides[1])
    /\ Len(source_slide(ordered_slides[1]).shapes) = 4
    /\ Len(Output.prs.slides[1].shapes) = 3

\* The entries the page loop of PDFAssembler logged: those behind the
\* warnings of the lookups.
PdfLoopLog ==
    SubSeq(log, Len(slide_ids) - Cardinality(Resolved(slide_ids)) + 1, Len(log))

PdfLoggedAt(level, j) ==
    \E n \in 1..Len(PdfLoopLog) :
        PdfLoopLog[n].level = level /\ PdfLoopLog[n].pos = j

\* The resolved references in the order of the output.
ResolvedOrder == OrderSlides(ResolvedOf(slide_ids), preserve_order)

PageOf(slide_data) == [from |-> slide_data.slide_pdf_path, page |-> 0]

PagesOf(records) == [k \in 1..Len(records) |-> PageOf(records[k])]

\* The page document of a record opens and has a page.
PdfReadable(slide_data) ==
    /\ HasPdf(slide_data)
    /\ Opens(PdfFile(slide_data.slide_pdf_path))
    /\ PdfFile(slide_data.slide_pdf_path).page_count > 0

C20_MissingPagesNeverFail ==
    /\ (pc = "pdf_raised"
            /\ \A j \in 1..Len(ResolvedOrder) :
                    HasPdf(ResolvedOrder[j]) => PdfReadable(ResolvedOrder[j]))
            => slide_ids = <<>> \/ Resolved(slide_ids) = {}
    /\ pc = "pdf_returned" =>
            /\ outcome.kind = "returned"
            /\ \E f \in exports : f.name = outcome.path /\ f.pages = out_doc

(***************************************************************************)
(* Two assemble requests served at once.  api_assemble is served by the   *)
(* worker threads of the server; slide_assembler is one object without     *)
(* fields, and every name assemble and _copy_slide assign is a local of    *)
(* the call.  The calls share the metadata store and the source files,     *)
(* which they only read, the exports directory and the clock.              *)
(***************************************************************************)
MaxPairIds == 2
\* The clock, in seconds.
Seconds == { 0, 1 }

PairSlideIds == { "s2", "s3" }

\* The name a caller supplies: request 1 and request 2 supply different ones.
\* A file name is [stem, timestamp, ext]; timestamp is << >> in a given name.
GivenName(i) ==
    [stem |-> IF i = 1 THEN "first" ELSE "second", timestamp |-> << >>,
     ext |-> "pptx"]

\* Lines 132-134: strftime("%Y%m%d_%H%M%S") keeps the seconds of the clock.
\* output_filename omitted.
NoName == [stem |-> "", timestamp |-> << >>, ext |-> ""]

TimestampedName(t) ==
    [stem |-> "assembled_", timestamp |-> << t >>, ext |-> "pptx"]

Call(ids, name, preserve) ==
    [pc |-> "called", slide_ids |-> ids, output_filename |-> name,
     preserve_order |-> preserve, slides_data |-> <<>>,
     ordered_slides |-> <<>>, copied |-> 0, new_prs |-> NoPresentation,
     image_counter |-> 0, outcome |-> NoOutcome]

\* Variant of CounterOf: one counter at module level, which every call
\* reads and advances.
CounterShared(cs, i) ==
    IF cs[1].image_counter >= cs[2].image_counter
    THEN cs[1].image_counter
    ELSE cs[2].image_counter

\* image_counter of call i: the dict of line 87, made by the call and handed
\* to _copy_slide (line 117).
CounterOf(cs, i) == cs[i].image_counter

PairInit ==
    /\ calls \in { << Call(a, m, p), Call(b, n, p) >> :
                        a \in SeqsUpTo(PairSlideIds, MaxPairIds),
                        b \in SeqsUpTo(PairSlideIds, MaxPairIds),
                        m \in { NoName, GivenName(1) },
                        n \in { NoName, GivenName(2) },
                        p \in BOOLEAN }
    /\ now = 0
    /\ exports = {}
    /\ pc = "none"
    /\ slide_ids = <<>>
    /\ output_filename = None
    /\ preserve_order = FALSE
    /\ lookups = <<>>
    /\ slides_data = <<>>
    /\ ordered_slides = <<>>
    /\ copied = 0
    /\ new_prs = NoPresentation
    /\ image_counter = 0
    /\ added_for = <<>>
    /\ log = <<>>
    /\ out_doc = <<>>
    /\ outcome = NoOutcome
    /\ removed = {}
    /\ IngestIdle
    /\ HttpIdle

single == << pc, slide_ids, output_filename, preserve_order, lookups,
            slides_data, ordered_slides, copied, new_prs, image_counter,
            added_for, log, out_doc, outcome >>

\* Lines 37-52 of call i: the list is empty or no reference resolves.
PairReject(i) ==
    /\ calls[i].pc = "called"
    /\ ResolvedOf(calls[i].slide_ids) = <<>>
    /\ calls' = [calls EXCEPT
            ![i].pc = "raised",
            ![i].outcome =
                IF calls[i].slide_ids = <<>>
                THEN Raise("ValueError", "No slides provided for assembly")
                ELSE Raise("ValueError", "No valid slides found")]
    /\ UNCHANGED << later, single, exports, now >>

\* Lines 37-52 of call i: the lookups.
PairFetch(i) ==
    /\ calls[i].pc = "called"
    /\ ResolvedOf(calls[i].slide_ids) # <<>>
    /\ calls' = [calls EXCEPT
            ![i].pc = "fetched",
            ![i].slides_data = ResolvedOf(calls[i].slide_ids)]
    /\ UNCHANGED << later, single, exports, now >>

\* Lines 54-97 of call i.
PairPrepare(i) ==
    /\ calls[i].pc = "fetched"
    /\ LET target_dimensions == TargetDimensions(calls[i].slides_data)
       IN  calls' = [calls EXCEPT
                ![i].pc = "copy",
                ![i].new_prs = NewPresentation(target_dimensions[1],
                                               target_dimensions[2]),
                ![i].image_counter = 0,
                ![i].ordered_slides = OrderSlides(calls[i].slides_data,
                                                  calls[i].preserve_order)]
    /\ UNCHANGED << later, single, exports, now >>

\* Lines 99-129 of call i, one turn.
PairCopy(i) ==
    /\ calls[i].pc = "copy"
    /\ calls[i].copied < Len(calls[i].ordered_slides)
    /\ LET slide_data == calls[i].ordered_slides[calls[i].copied + 1]
       IN  IF ~SourceLoads(slide_data)
           THEN calls' = [calls EXCEPT ![i].copied = @ + 1]
           ELSE LET done == CopySlide(source_slide(slide_data),
                                      calls[i].new_prs, CounterOf(calls, i))
                IN  calls' = [calls EXCEPT ![i].copied = @ + 1,
                                           ![i].new_prs = done.prs,
                                           ![i].image_counter = done.count]
    /\ UNCHANGED << later, single, exports, now >>

\* Lines 131-145 of call i.
PairSave(i) ==
    /\ calls[i].pc = "copy"
    /\ calls[i].copied = Len(calls[i].ordered_slides)
    /\ LET name == IF calls[i].output_filename # NoName
                   THEN calls[i].output_filename
                   ELSE TimestampedName(now)
       IN  /\ exports' = { f \in exports : f.name # name }
                            \cup { [name |-> name, prs |-> calls[i].new_prs] }
           /\ calls' = [calls EXCEPT ![i].pc = "returned",
                                     ![i].outcome = Return(name)]
    /\ UNCHANGED << later, single, now >>

\* A second passes.  The clock is read at line 133 only, so the model lets
\* it advance where a call is about to read it.
Tick ==
    /\ now + 1 \in Seconds
    /\ \E i \in 1..2 :
            /\ calls[i].pc = "copy"
            /\ calls[i].copied = Len(calls[i].ordered_slides)
    /\ now' = now + 1
    /\ UNCHANGED << later, single, calls, exports >>

PairNext ==
    \/ Tick
    \/ \E i \in 1..2 :
            \/ PairReject(i)
            \/ PairFetch(i)
            \/ PairPrepare(i)
            \/ PairCopy(i)
            \/ PairSave(i)

SpecPair == PairInit /\ [][PairNext]_vars

\* What one call produces when it runs alone: the copy loop of lines 99-129
\* from the first slide to the last, on the call's own target and counter.
RECURSIVE CopyAll(_, _)
CopyAll(st, ordered) ==
    IF ordered = <<>> THEN st
    ELSE IF ~SourceLoads(Head(ordered)) THEN CopyAll(st, Tail(ordered))
    ELSE LET done == CopySlide(source_slide(Head(ordered)), st.prs, st.count)
         IN  CopyAll([prs |-> done.prs, count |-> done.count], Tail(ordered))

AssembledAlone(ids, preserve) ==
    LET data == ResolvedOf(ids)
        target_dimensions == TargetDimensions(data)
    IN  CopyAll([prs |-> NewPresentation(target_dimensions[1],
                                         target_dimensions[2]),
                 count |-> 0],
                OrderSlides(data, preserve)).prs

Returned(i) == calls[i].outcome.kind = "returned"

SamePath(i, j) ==
    Returned(i) /\ Returned(j) /\ calls[i].outcome.path = calls[j].outcome.path

\* C17: of two calls running at once, each gives the package it gives when
\* it runs alone (slides, order, canvas, part names, relationship ids), and,
\* the output files being different, each file holds that package; also when
\* both calls reference the same source slide.
C17_NoInterference ==
    \A i \in 1..2 :
        (calls # <<>> /\ Returned(i)) =>
            LET alone == AssembledAlone(calls[i].slide_ids,
                                        calls[i].preserve_order)
            IN  /\ calls[i].new_prs = alone
                /\ ~SamePath(i, 3 - i) =>
                        \E f \in exports :
                            f.name = calls[i].outcome.path /\ f.prs = alone

\* C17 witness: both calls returned, to different files, each with two
\* slides, parts copied under minted names in both, and a source slide
\* referenced by both.
C17_Witness ==
    /\ calls # <<>>
    /\ Returned(1) /\ Returned(2) /\ ~SamePath(1, 2)
    /\ \A i \in 1..2 :
            /\ Len(calls[i].new_prs.slides) = 2
            /\ \E p \in RelatedParts(calls[i].new_prs) : IsMinted(p)
            /\ \E k \in 1..Len(calls[i].slide_ids) : calls[i].slide_ids[k] = "s2"
    /\ calls[1].slide_ids # calls[2].slide_ids

\* C18 (as claimed): two requests that omit the output name never write to
\* the same path, whether one runs after the other or both at once: each
\* returned path names a file that holds the package of that request.
C18_DistinctDefaultNames ==
    (calls # <<>> /\ Returned(1) /\ Returned(2)
        /\ calls[1].output_filename = NoName
        /\ calls[2].output_filename = NoName) =>
        /\ calls[1].outcome.path # calls[2].outcome.path
        /\ \A i \in 1..2 :
                \E f \in exports :
                    f.name = calls[i].outcome.path /\ f.prs = calls[i].new_prs

(***************************************************************************)
(* SlideProcessor.save_slide_as_file                                       *)
(***************************************************************************)
\* package.get_or_add_image_part(image_stream): the image part of the new
\* package that holds these bytes, or a new one under the next free image
\* name.
get_or_add_image_part(prs, related_part) ==
    LET same == { p \in RelatedParts(prs) :
                    p.partname.prefix = "/ppt/media/image"
                        /\ p.blob = related_part.blob }
    IN  IF same # {} THEN CHOOSE p \in same : TRUE
        ELSE MkPart("target",
                    PartName("/ppt/media/image", next_image_idx(prs), "png"),
                    related_part.content_type, related_part.blob, {})

\* The image bytes python-pptx recognises; anything else makes
\* get_or_add_image_part raise.
IsImage(related_part) ==
    related_part.blob # None /\ related_part.content_type = "image/png"

\* One turn of the loop of lines 379-399 on st = [prs, rel_id_map]; the
\* mapping is kept as the sequence of its items in insertion order.  A
\* relationship whose handling raises is passed over (line 398).
SaveRel(st, rel) ==
    IF {"image", "media"} \cap Substrings(rel.reltype) = {} THEN st
    ELSE IF rel.external \/ ~IsImage(rel.target) \/ rel.fault # "none" THEN st
    ELSE LET image_part == get_or_add_image_part(st.prs, rel.target)
             new_rId == relate_to(LastSlide(st.prs).rels, image_part,
                                  rel.reltype)
         IN  [prs |-> [st.prs EXCEPT !.slides[Len(st.prs.slides)].rels =
                                        new_rId.rels],
              rel_id_map |-> Append(st.rel_id_map,
                                    [old_rid |-> rel.rId,
                                     new_rid |-> new_rId.rId])]

RECURSIVE SaveRels(_, _)
SaveRels(st, rels) ==
    IF rels = <<>> THEN st ELSE SaveRels(SaveRel(st, Head(rels)), Tail(rels))

\* Lines 411-417 for one blip: the items of rel_id_map are applied one after
\* the other to the attribute as the previous item left it.
RECURSIVE RemapBlip(_, _)
RemapBlip(embed, rel_id_map) ==
    IF rel_id_map = <<>> THEN embed
    ELSE RemapBlip(IF embed = Head(rel_id_map).old_rid
                   THEN Head(rel_id_map).new_rid
                   ELSE embed,
                   Tail(rel_id_map))

\* Lines 404-421: the clones of the shapes, in order, with r:embed rewritten.
SaveShapes(shapes, rel_id_map) ==
    LET cloned == CopyShapes(shapes)
    IN  [k \in 1..Len(cloned) |->
            [cloned[k] EXCEPT !.embed = RemapBlip(@, rel_id_map)]]

\* save_slide_as_file(presentation, slide_index, output_path): the package
\* written to output_path.  It raises (line 429) when the shape tree of the
\* slide cannot be iterated (line 404).
save_slide_as_file(presentation, slide_index) ==
    LET slide == presentation.slides[slide_index + 1]
        blank == add_slide(NewPresentation(presentation.slide_width,
                                           presentation.slide_height))
        st == SaveRels([prs |-> blank, rel_id_map |-> <<>>], slide.rels)
    IN  [st.prs EXCEPT !.slides[1].shapes =
                            SaveShapes(slide.shapes, st.rel_id_map)]

(***************************************************************************)
(* IngestEngine.ingest_file                                                *)
(***************************************************************************)
\* A slide another producer wrote: two pictures, the image relationships
\* before the layout.
UploadSlide1 ==
    SourceSlide("U2", TRUE,
        << Shape("Picture 1", 1, NoRId, TRUE),
           Shape("Picture 2", 2, NoRId, TRUE) >>,
        << SrcRel(1, "image", ImageOf("upload", 1, "png-b"), "none"),
           SrcRel(2, "image", ImageOf("upload", 2, "png-c"), "none"),
           SrcRel(3, "slideLayout", LayoutOf("upload"), "none") >>)

\* A slide whose relationships part lists the second image first.
UploadSlide2 ==
    SourceSlide("U3", TRUE,
        << Shape("Picture 3", 3, NoRId, TRUE),
           Shape("Picture 4", 2, NoRId, TRUE) >>,
        << SrcRel(1, "slideLayout", LayoutOf("upload"), "none"),
           SrcRel(3, "image", ImageOf("upload", 2, "png-d"), "none"),
           SrcRel(2, "image", ImageOf("upload", 1, "png-e"), "none") >>)

\* A slide whose shape tree cannot be iterated.
UploadSlide3 ==
    SourceSlide("U4", FALSE, << Shape("Title 1", NoRId, NoRId, TRUE) >>,
        << SrcRel(1, "slideLayout", LayoutOf("upload"), "none") >>)

\* A file offered for ingestion: suffix is Path.suffix, bytes the content,
\* st_size and st_mtime what stat() gives, loads whether Presentation()
\* opens it, prs the package it then gives.
Upload(exists, suffix, bytes, st_size, st_mtime, loads, prs) ==
    [exists |-> exists, suffix |-> suffix, bytes |-> bytes,
     st_size |-> st_size, st_mtime |-> st_mtime, loads |-> loads,
     prs |-> prs]

NoPackage == Package(0, 0, <<>>)

UploadPaths ==
    { "a.pptx", "a-copy.pptx", "b.pptx", "c.pptx", "broken.pptx", "notes.txt",
      "gone.pptx" }

\* a-copy.pptx is a.pptx copied with its modification time; c.pptx holds a
\* slide save_slide_as_file cannot read; broken.pptx is no package.
UploadFile(file_path) ==
    CASE file_path \in { "a.pptx", "a-copy.pptx" } ->
            Upload(TRUE, ".pptx", "bytes-a", 52000, 1, TRUE,
                   Package(Dim43[1], Dim43[2], << Deck1Slide0, UploadSlide1 >>))
      [] file_path = "b.pptx" ->
            Upload(TRUE, ".pptx", "bytes-b", 31000, 2, TRUE,
                   Package(Dim169[1], Dim169[2], << UploadSlide2 >>))
      [] file_path = "c.pptx" ->
            Upload(TRUE, ".pptx", "bytes-c", 31000, 3, TRUE,
                   Package(Dim169[1], Dim169[2],
                           << Deck2Slide1, UploadSlide3 >>))
      [] file_path = "broken.pptx" ->
            Upload(TRUE, ".pptx", "bytes-d", 12, 4, FALSE, NoPackage)
      [] file_path = "notes.txt" ->
            Upload(TRUE, ".txt", "bytes-e", 40, 5, FALSE, NoPackage)
      [] OTHER -> Upload(FALSE, ".pptx", "", 0, 0, FALSE, NoPackage)

\* compute_file_hash: SHA-256 over the content digest, the size and the
\* modification time; two files have one hash when all three agree.
compute_file_hash(file_path) ==
    [digest |-> UploadFile(file_path).bytes,
     st_size |-> UploadFile(file_path).st_size,
     st_mtime |-> UploadFile(file_path).st_mtime]

NoHash == [digest |-> "", st_size |-> 0, st_mtime |-> 0]

\* The deck_id ingest_file returns for a duplicate: None.
NoDeckId == 0

\* uuid.uuid4() as call c draws it for the k-th time: no two draws agree.
uuid4(c, k) == 10 * c + k

\* Database.check_deck_exists: the deck_id of a row with this hash.
check_deck_exists(file_hash) ==
    IF \E d \in decks : d.file_hash = file_hash
    THEN (CHOOSE d \in decks : d.file_hash = file_hash).deck_id
    ELSE NoDeckId

\* The row Database.insert_deck writes and commits.
DeckRow(deck_id, file_hash, original_path, slide_count) ==
    [deck_id |-> deck_id, file_hash |-> file_hash,
     original_path |-> original_path, slide_count |-> slide_count]

\* What table decks accepts: deck_id is its key, and no other column is
\* constrained.
DecksAccepts(row) == \A d \in decks : d.deck_id # row.deck_id

\* db.generate_slide_id(): a new UUID.
generate_slide_id(c, slide_idx) == uuid4(c, slide_idx + 1)

\* The row db.insert_slide_with_id writes and commits, from the item of
\* slide_data_for_pdf.
insert_slide_with_id(data) ==
    [slide_id |-> data.slide_id, deck_id |-> data.deck_id,
     slide_index |-> data.slide_index,
     slide_file_path |-> data.slide_file_path]

\* settings.slides_dir / f"{slide_id}.pptx"
SlideFilename(slide_id) == [stem |-> slide_id, ext |-> "pptx"]

\* The locals of one call.
Ingest(file_path) ==
    [file_path |-> file_path, pc |-> "called", file_hash |-> NoHash,
     deck_id |-> NoDeckId, slide_idx |-> 0, slide_data_for_pdf |-> <<>>,
     inserted |-> 0,
     outcome |-> [kind |-> "none", exc |-> None, deck_id |-> NoDeckId]]

IngestRaised(exc) == [kind |-> "raised", exc |-> exc, deck_id |-> NoDeckId]

ReturnId(deck_id) == [kind |-> "returned", exc |-> None, deck_id |-> deck_id]

\* Calls of ingest_file made at once: the API runs each in a worker thread
\* (app.py, asyncio.to_thread).
MaxIngests == 2

\* The assemblers are not running.
AssemblersIdle ==
    /\ pc = "none"
    /\ slide_ids = <<>>
    /\ output_filename = None
    /\ preserve_order = FALSE
    /\ lookups = <<>>
    /\ slides_data = <<>>
    /\ ordered_slides = <<>>
    /\ copied = 0
    /\ new_prs = NoPresentation
    /\ image_counter = 0
    /\ added_for = <<>>
    /\ log = <<>>
    /\ out_doc = <<>>
    /\ outcome = NoOutcome
    /\ exports = {}
    /\ calls = <<>>
    /\ now = 0
    /\ removed = {}

IngestInit ==
    /\ AssemblersIdle
    /\ HttpIdle
    /\ decks = {}
    /\ slides = {}
    /\ slides_dir = {}
    /\ thumbnails_dir = {}
    /\ ingests \in [1..MaxIngests -> { Ingest(f) : f \in UploadPaths }]

outsideIngest == << single, exports, calls, now, removed, sessions, request,
                    response >>

\* Lines 59-61.
IngestNotFound(c) ==
    /\ ingests[c].pc = "called"
    /\ ~UploadFile(ingests[c].file_path).exists
    /\ ingests' = [ingests EXCEPT ![c].pc = "raised",
                                  ![c].outcome = IngestRaised("FileNotFoundError")]
    /\ UNCHANGED << outsideIngest, decks, slides, slides_dir, thumbnails_dir >>

\* Lines 63-65.
IngestNotPptx(c) ==
    /\ ingests[c].pc = "called"
    /\ UploadFile(ingests[c].file_path).exists
    /\ UploadFile(ingests[c].file_path).suffix # ".pptx"
    /\ ingests' = [ingests EXCEPT ![c].pc = "raised",
                                  ![c].outcome = IngestRaised("ValueError")]
    /\ UNCHANGED << outsideIngest, decks, slides, slides_dir, thumbnails_dir >>

\* Variant of IngestDuplicate: the call returns existing_deck_id.
IngestDuplicateReturnsId(c) ==
    /\ ingests[c].pc = "called"
    /\ UploadFile(ingests[c].file_path).exists
    /\ UploadFile(ingests[c].file_path).suffix = ".pptx"
    /\ LET file_hash == compute_file_hash(ingests[c].file_path)
       IN  /\ check_deck_exists(file_hash) # NoDeckId
           /\ ingests' = [ingests EXCEPT
                    ![c].pc = "returned",
                    ![c].file_hash = file_hash,
                    ![c].outcome = ReturnId(check_deck_exists(file_hash))]
    /\ UNCHANGED << outsideIngest, decks, slides, slides_dir, thumbnails_dir >>

\* Lines 69-77: the hash is recorded, the call returns None.
IngestDuplicate(c) ==
    /\ ingests[c].pc = "called"
    /\ UploadFile(ingests[c].file_path).exists
    /\ UploadFile(ingests[c].file_path).suffix = ".pptx"
    /\ LET file_hash == compute_file_hash(ingests[c].file_path)
       IN  /\ check_deck_exists(file_hash) # NoDeckId
           /\ ingests' = [ingests EXCEPT ![c].pc = "returned",
                                         ![c].file_hash = file_hash,
                                         ![c].outcome = ReturnId(NoDeckId)]
    /\ UNCHANGED << outsideIngest, decks, slides, slides_dir, thumbnails_dir >>

\* Lines 69-75: the hash is not recorded.
IngestCheck(c) ==
    /\ ingests[c].pc = "called"
    /\ UploadFile(ingests[c].file_path).exists
    /\ UploadFile(ingests[c].file_path).suffix = ".pptx"
    /\ LET file_hash == compute_file_hash(ingests[c].file_path)
       IN  /\ check_deck_exists(file_hash) = NoDeckId
           /\ ingests' = [ingests EXCEPT ![c].pc = "checked",
                                         ![c].file_hash = file_hash]
    /\ UNCHANGED << outsideIngest, decks, slides, slides_dir, thumbnails_dir >>

\* Lines 80-84: Presentation() raises.
IngestLoadRaises(c) ==
    /\ ingests[c].pc = "checked"
    /\ ~UploadFile(ingests[c].file_path).loads
    /\ ingests' = [ingests EXCEPT ![c].pc = "raised",
                                  ![c].outcome = IngestRaised("PackageNotFoundError")]
    /\ UNCHANGED << outsideIngest, decks, slides, slides_dir, thumbnails_dir >>

\* Lines 80-112: the deck row is written and committed.
IngestInsertDeck(c) ==
    /\ ingests[c].pc = "checked"
    /\ UploadFile(ingests[c].file_path).loads
    /\ LET presentation == UploadFile(ingests[c].file_path).prs
           deck_id == uuid4(c, 0)
           row == DeckRow(deck_id, ingests[c].file_hash,
                          ingests[c].file_path, Len(presentation.slides))
       IN  /\ DecksAccepts(row)
           /\ decks' = decks \cup { row }
           /\ ingests' = [ingests EXCEPT ![c].pc = "slides",
                                         ![c].deck_id = deck_id]
    /\ UNCHANGED << outsideIngest, slides, slides_dir, thumbnails_dir >>

\* Lines 115-138 for a slide whose shape tree cannot be read: the text
\* extraction and save_slide_as_file iterate it, and ingest_file handles
\* neither exception.
IngestSlideRaises(c) ==
    /\ ingests[c].pc = "slides"
    /\ LET presentation == UploadFile(ingests[c].file_path).prs
       IN  /\ ingests[c].slide_idx < Len(presentation.slides)
           /\ ~presentation.slides[ingests[c].slide_idx + 1].shapes_ok
    /\ ingests' = [ingests EXCEPT ![c].pc = "raised",
                                  ![c].outcome = IngestRaised("Exception")]
    /\ UNCHANGED << outsideIngest, decks, slides, slides_dir, thumbnails_dir >>

\* Lines 115-228, one turn: the standalone file and the thumbnail are
\* written, the row is kept for later.
IngestSlide(c) ==
    /\ ingests[c].pc = "slides"
    /\ LET presentation == UploadFile(ingests[c].file_path).prs
           slide_idx == ingests[c].slide_idx
       IN  /\ slide_idx < Len(presentation.slides)
           /\ presentation.slides[slide_idx + 1].shapes_ok
           /\ LET slide_id == generate_slide_id(c, slide_idx)
                  slide_file_path == SlideFilename(slide_id)
              IN  /\ slides_dir' =
                        { f \in slides_dir : f.name # slide_file_path } \cup
                        { [name |-> slide_file_path,
                           prs |-> save_slide_as_file(presentation, slide_idx)] }
                  /\ thumbnails_dir' = thumbnails_dir \cup
                        { [deck_id |-> ingests[c].deck_id,
                           slide_idx |-> slide_idx] }
                  /\ ingests' = [ingests EXCEPT
                        ![c].slide_idx = slide_idx + 1,
                        ![c].slide_data_for_pdf =
                            Append(@, [slide_id |-> slide_id,
                                       deck_id |-> ingests[c].deck_id,
                                       slide_index |-> slide_idx,
                                       slide_file_path |-> slide_file_path])]
    /\ UNCHANGED << outsideIngest, decks, slides >>

\* Variant of IngestInsertRow: the row is written as Database.insert_slide
\* writes it, without slide_file_path.
IngestInsertRowNoPath(c) ==
    /\ ingests[c].pc = "slides"
    /\ ingests[c].slide_idx = Len(UploadFile(ingests[c].file_path).prs.slides)
    /\ ingests[c].inserted < Len(ingests[c].slide_data_for_pdf)
    /\ LET data == ingests[c].slide_data_for_pdf[ingests[c].inserted + 1]
       IN  slides' = slides \cup
                { [insert_slide_with_id(data) EXCEPT
                        !.slide_file_path = SlideFilename(NoDeckId)] }
    /\ ingests' = [ingests EXCEPT ![c].inserted = @ + 1]
    /\ UNCHANGED << outsideIngest, decks, slides_dir, thumbnails_dir >>

\* Lines 249-263, one turn: a slide row is written and committed.
IngestInsertRow(c) ==
    /\ ingests[c].pc = "slides"
    /\ ingests[c].slide_idx = Len(UploadFile(ingests[c].file_path).prs.slides)
    /\ ingests[c].inserted < Len(ingests[c].slide_data_for_pdf)
    /\ LET data == ingests[c].slide_data_for_pdf[ingests[c].inserted + 1]
       IN  slides' = slides \cup { insert_slide_with_id(data) }
    /\ ingests' = [ingests EXCEPT ![c].inserted = @ + 1]
    /\ UNCHANGED << outsideIngest, decks, slides_dir, thumbnails_dir >>

\* Lines 275-276.
IngestReturn(c) ==
    /\ ingests[c].pc = "slides"
    /\ ingests[c].slide_idx = Len(UploadFile(ingests[c].file_path).prs.slides)
    /\ ingests[c].inserted = Len(ingests[c].slide_data_for_pdf)
    /\ ingests' = [ingests EXCEPT ![c].pc = "returned",
                                  ![c].outcome = ReturnId(ingests[c].deck_id)]
    /\ UNCHANGED << outsideIngest, decks, slides, slides_dir, thumbnails_dir >>

IngestNext ==
    \E c \in 1..MaxIngests :
        \/ IngestNotFound(c)
        \/ IngestNotPptx(c)
        \/ IngestDuplicate(c)
        \/ IngestCheck(c)
        \/ IngestLoadRaises(c)
        \/ IngestInsertDeck(c)
        \/ IngestSlideRaises(c)
        \/ IngestSlide(c)
        \/ IngestInsertRow(c)
        \/ IngestReturn(c)

SpecIngest == IngestInit /\ [][IngestNext]_vars

\* The calls that returned a deck id.
Ingested(c) ==
    ingests[c].outcome.kind = "returned" /\ ingests[c].outcome.deck_id # NoDeckId

\* get_slides_by_deck_id
get_slides_by_deck_id(deck_id) == { s \in slides : s.deck_id = deck_id }

DrawnBy(id) == id \div 10

DecksOf(c) == { d \in decks : d.deck_id = uuid4(c, 0) }

AddedBy(c) ==
    << DecksOf(c),
       { s \in slides : s.deck_id = uuid4(c, 0) },
       { f \in slides_dir : DrawnBy(f.name.stem) = c },
       { t \in thumbnails_dir : t.deck_id = uuid4(c, 0) } >>

\* C25: a call whose file hash is in table decks when it looks returns None
\* and adds nothing (no deck row, slide row, standalone file or thumbnail);
\* a call that returns otherwise returns the id of the one deck row it
\* added, which carries the hash of its file.
C25_DuplicateChangesNothing ==
    [][\A c \in 1..Len(ingests) :
        /\ (/\ ingests[c].pc = "called"
            /\ ingests'[c].pc # "called"
            /\ UploadFile(ingests[c].file_path).exists
            /\ UploadFile(ingests[c].file_path).suffix = ".pptx"
            /\ check_deck_exists(compute_file_hash(ingests[c].file_path))
                    # NoDeckId) =>
                /\ ingests'[c].outcome = ReturnId(NoDeckId)
                /\ UNCHANGED << decks, slides, slides_dir, thumbnails_dir >>
                /\ AddedBy(c) = << {}, {}, {}, {} >>
        /\ (ingests[c].pc # "returned" /\ ingests'[c].pc = "returned"
                /\ ingests[c].pc # "called") =>
                /\ Cardinality(DecksOf(c)) = 1
                /\ \A d \in DecksOf(c) :
                        /\ ingests'[c].outcome = ReturnId(d.deck_id)
                        /\ d.file_hash = compute_file_hash(ingests[c].file_path)
                        /\ d.deck_id # NoDeckId
      ]_vars

\* C25 witness: a call on a copy of an ingested file (another path, the same
\* hash) returned None and added nothing, and the call that ingested the
\* file returned the id of its deck row.
C25_Witness ==
    \E c \in 1..Len(ingests), e \in 1..Len(ingests) :
        /\ ingests[c].outcome = ReturnId(NoDeckId)
        /\ ingests[c].pc = "returned"
        /\ AddedBy(c) = << {}, {}, {}, {} >>
        /\ Ingested(e)
        /\ ingests[e].file_path # ingests[c].file_path
        /\ ingests[e].file_hash = ingests[c].file_hash
        /\ slides_dir # {}

\* The relationship of a slide with this rId.
RelOf(rels, rId) == CHOOSE k \in 1..Len(rels) : rels[k].rId = rId

\* C27 (as claimed): in every standalone file, a picture whose source
\* r:embed is v, v the relationship of an image that was copied, ends with
\* an r:embed that resolves to the copy of that image (the part holding its
\* bytes), also when the identifier minted for one image is the old
\* identifier of another.
C27_PictureKeepsImage ==
    \A c \in 1..Len(ingests) :
        \A f \in slides_dir :
            \A idx \in 0..(ingests[c].slide_idx - 1) :
                f.name.stem = generate_slide_id(c, idx) =>
                    LET source == UploadFile(ingests[c].file_path).prs.slides[idx + 1]
                        clones == CopyShapes(source.shapes)
                        saved == f.prs.slides[1]
                    IN  \A k \in 1..Len(clones) :
                            \A r \in 1..Len(source.rels) :
                                (/\ clones[k].embed = source.rels[r].rId
                                 /\ "image" \in Substrings(source.rels[r].reltype)
                                 /\ ~source.rels[r].external
                                 /\ IsImage(source.rels[r].target)) =>
                                    /\ saved.shapes[k].embed \in RIds(saved)
                                    /\ saved.rels[RelOf(saved.rels,
                                            saved.shapes[k].embed)].target.blob
                                        = source.rels[r].target.blob

\* C29 (as claimed): a call that raised has left no deck row behind, so
\* check_deck_exists finds no deck that lacks slide rows.
C29_NoDeckLeftBehind ==
    \A c \in 1..Len(ingests) :
        ingests[c].pc = "raised" => DecksOf(c) = {}

StartsWith(path, prefix) ==
    Len(prefix) <= Len(path) /\ SubSeq(path, 1, Len(prefix)) = prefix

\* Line 62.
exempt_prefixes ==
    { << "/", "a", "u", "t", "h" >>,
      << "/", "s", "t", "a", "t", "i", "c" >>,
      << "/", "h", "e", "a", "l", "t", "h" >> }

\* Line 63.
exempt_paths == { << "/", "f", "a", "v", "i", "c", "o", "n", ".", "i", "c", "o" >> }

\* Line 66.
is_exempt(path) ==
    (\E prefix \in exempt_prefixes : StartsWith(path, prefix))
        \/ path \in exempt_paths

ApiPrefix == << "/", "a", "p", "i" >>

\* The paths with a route: /, /decks, /api/decks, /auth/login,
\* /static/app.css, /health.
Routes ==
    { << "/" >>,
      << "/", "d", "e", "c", "k", "s" >>,
      ApiPrefix \o << "/", "d", "e", "c", "k", "s" >>,
      << "/", "a", "u", "t", "h", "/", "l", "o", "g", "i", "n" >>,
      << "/", "s", "t", "a", "t", "i", "c", "/", "a", "p", "p", ".", "c", "s", "s" >>,
      << "/", "h", "e", "a", "l", "t", "h" >> }

\* The paths a client asks for: the routes, /favicon.ico, and /api/nothing,
\* /nothing, /healthz, /authors and /static-old, which have no route.
Paths ==
    Routes \cup exempt_paths \cup
    { ApiPrefix \o << "/", "n", "o", "t", "h", "i", "n", "g" >>,
      << "/", "n", "o", "t", "h", "i", "n", "g" >>,
      << "/", "h", "e", "a", "l", "t", "h", "z" >>,
      << "/", "a", "u", "t", "h", "o", "r", "s" >>,
      << "/", "s", "t", "a", "t", "i", "c", "-", "o", "l", "d" >> }

\* The session ids: sid-1 and sid-2 are issued by the login callback,
\* sid-0 was made up by the client.
SessionIds == { "sid-1", "sid-2" }

Cookies == { "", "sid-0" } \cup SessionIds

NoUser == [session_id |-> ""]

\* Variant of get_current_user_optional: the cookie is taken at its word,
\* without the lookup of the session.
get_user_from_cookie(req) ==
    IF req.cookie = "" THEN NoUser ELSE [session_id |-> req.cookie]

\* deps.get_current_user_optional: None without the cookie (line 21) or when
\* auth_service.get_session finds no unexpired row (line 25).
get_current_user_optional(req) ==
    IF req.cookie = "" THEN NoUser
    ELSE IF req.cookie \notin sessions THEN NoUser
    ELSE [session_id |-> req.cookie]

\* call_next(request): the response of the route, 404 when there is none.
call_next(req) ==
    IF req.path \in Routes THEN Response(200, NoContent, "", TRUE)
    ELSE Response(404, [error |-> "", detail |-> "Not Found"], "", TRUE)

\* Lines 76-79.
JSONResponse401 ==
    Response(401, [error |-> "Not authenticated",
                   detail |-> "Authentication required"], "", FALSE)

\* Line 81: RedirectResponse(url="/auth/login"), status 307 by default.
RedirectLogin == Response(307, NoContent, "/auth/login", FALSE)

HttpInit ==
    /\ AssemblersIdle
    /\ IngestIdle
    /\ sessions \in SUBSET SessionIds
    /\ request = NoRequest
    /\ response = NoResponse

outsideHttp == << single, exports, calls, now, removed, decks, slides,
                  slides_dir, thumbnails_dir, ingests >>

\* A client sends a request, once the previous one is answered.
Receive(path, cookie) ==
    /\ request = NoRequest \/ response # NoResponse
    /\ request' = Request(path, cookie)
    /\ response' = NoResponse
    /\ UNCHANGED << outsideHttp, sessions >>

\* Lines 50-84, the middleware on the request.
enforce_authentication ==
    /\ request # NoRequest
    /\ response = NoResponse
    /\ response' =
            IF is_exempt(request.path) THEN call_next(request)
            ELSE IF get_current_user_optional(request) = NoUser
            THEN IF StartsWith(request.path, ApiPrefix)
                 THEN JSONResponse401
                 ELSE RedirectLogin
            ELSE call_next(request)
    /\ UNCHANGED << outsideHttp, sessions, request >>

\* The login callback stores a session (auth_service.create_session).
CreateSession(session_id) ==
    /\ session_id \in SessionIds \ sessions
    /\ sessions' = sessions \cup { session_id }
    /\ UNCHANGED << outsideHttp, request, response >>

\* A session passes its expires_at, or logout deletes it.
ExpireSession(session_id) ==
    /\ session_id \in sessions
    /\ sessions' = sessions \ { session_id }
    /\ UNCHANGED << outsideHttp, request, response >>

HttpNext ==
    \/ \E path \in Paths, cookie \in Cookies : Receive(path, cookie)
    \/ enforce_authentication
    \/ \E session_id \in SessionIds :
            \/ CreateSession(session_id)
            \/ ExpireSession(session_id)

SpecHttp == HttpInit /\ [][HttpNext]_vars

\* C23: when the middleware answers a request that carries no valid
\* session (no cookie, or a cookie with no unexpired session row) for a path
\* its exemption test lets through, the answer is its own and the route is
\* not run: 401 with the body {error: Not authenticated, detail:
\* Authentication required} when the path starts with /api, else a redirect
\* to /auth/login.
C23_NoSessionNoHandler ==
    [][(/\ request # NoRequest
        /\ response = NoResponse
        /\ response' # NoResponse
        /\ ~is_exempt(request.path)
        /\ (request.cookie = "" \/ request.cookie \notin sessions)) =>
            /\ ~response'.passed
            /\ StartsWith(request.path, ApiPrefix) =>
                    /\ response'.status_code = 401
                    /\ response'.content = [error |-> "Not authenticated",
                                            detail |-> "Authentication required"]
            /\ ~StartsWith(request.path, ApiPrefix) =>
                    /\ response'.status_code = 307
                    /\ response'.location = "/auth/login"
      ]_vars

\* C23 witness: a request for /api/decks with the cookie of a session that
\* has expired was answered 401.
C23_Witness ==
    /\ request = Request(ApiPrefix \o << "/", "d", "e", "c", "k", "s" >>, "sid-1")
    /\ "sid-1" \notin sessions
    /\ response = JSONResponse401

\* The paths the documentation of the middleware exempts: /auth/*,
\* /static/*, /health and /favicon.ico.
Documented(path) ==
    \/ StartsWith(path, << "/", "a", "u", "t", "h", "/" >>)
    \/ StartsWith(path, << "/", "s", "t", "a", "t", "i", "c", "/" >>)
    \/ path = << "/", "h", "e", "a", "l", "t", "h" >>
    \/ path = << "/", "f", "a", "v", "i", "c", "o", "n", ".", "i", "c", "o" >>

\* C24 (as claimed): a request without a session cookie is passed on to the
\* routed application exactly when its path is one of /auth/*, /static/*,
\* /health and /favicon.ico.
C24_ExemptExactly ==
    (request # NoRequest /\ response # NoResponse /\ request.cookie = "") =>
        (response.passed <=> Documented(request.path))

(***************************************************************************)
(* The remap pass of _copy_slide, seen from the output                      *)
(***************************************************************************)
\* old_to_new as the relationship loop of _copy_slide leaves it for a source
\* slide (lines 183-307); no entry depends on the target package.
OldToNew(source) ==
    CopyRels([prs |-> add_slide(NewPresentation(0, 0)), count |-> 0,
              old_to_new |-> << >>],
             source.rels).old_to_new

\* The slides of the target whose copy ran to its end.
CopiedSlides ==
    { n \in 1..Len(new_prs.slides) :
        n <= Len(added_for) /\ SourceOf(n).shapes_ok }

\* C26 (as claimed): in every copied slide each r:embed and r:id attribute
\* whose source value v is a key of old_to_new ends with the value
\* old_to_new[v], the identifier minted for v, and every other attribute and
\* element is as in the source.
C26_SimultaneousSubstitution ==
    \A n \in CopiedSlides :
        LET clones == CopyShapes(SourceOf(n).shapes)
            map == OldToNew(SourceOf(n))
            out == new_prs.slides[n].shapes
            Expected(v) == IF v \in DOMAIN map THEN map[v] ELSE v
        IN  /\ Len(out) = Len(clones)
            /\ \A k \in 1..Len(clones) :
                    out[k] = [clones[k] EXCEPT !.embed = Expected(@),
                                               !.id = Expected(@)]

\* The relationship of a source slide an attribute value names, if any.
SourceRels(source, v) ==
    { r \in 1..Len(source.rels) : source.rels[r].rId = v }

\* part is the copy of (or, after the fallback of line 298, is) the part
\* original.
IsCopyOf(part, original) ==
    \/ part = original
    \/ /\ original.blob # None
       /\ part.blob = original.blob
       /\ part.content_type = original.content_type

\* What an attribute value of an output slide resolves to, and what the
\* value it was copied from resolved to in the source.
ResolvesRight(n, v, old) ==
    v \in RIds(new_prs.slides[n]) =>
        \E r \in SourceRels(SourceOf(n), old) :
            /\ ~SourceOf(n).rels[r].external
            /\ IsCopyOf(new_prs.slides[n].rels[
                            RelOf(new_prs.slides[n].rels, v)].target,
                        SourceOf(n).rels[r].target)

\* C28 (as claimed): in every copied slide, an r:embed or r:id attribute
\* that is an identifier of the output slide's relationship table resolves
\* to the copy of the part the source attribute pointed to, never to another
\* part.
C28_ResolvesToOwnCopy ==
    \A n \in CopiedSlides :
        LET clones == CopyShapes(SourceOf(n).shapes)
            out == new_prs.slides[n].shapes
        IN  \A k \in 1..Len(out) :
                /\ out[k].embed # NoRId =>
                        ResolvesRight(n, out[k].embed, clones[k].embed)
                /\ out[k].id # NoRId =>
                        ResolvesRight(n, out[k].id, clones[k].id)

(***************************************************************************)
(* Assembling while the original decks are deleted or moved                *)
(***************************************************************************)
PortableIds == { "s1", "s2", "s6", "nonexistent-id" }

PortableInit ==
    /\ pc = "called"
    /\ slide_ids \in SeqsUpTo(PortableIds, MaxSlideIds)
    /\ output_filename = None
    /\ preserve_order \in BOOLEAN
    /\ lookups = <<>>
    /\ slides_data = <<>>
    /\ ordered_slides = <<>>
    /\ copied = 0
    /\ new_prs = NoPresentation
    /\ image_counter = 0
    /\ added_for = <<>>
    /\ log = <<>>
    /\ out_doc = <<>>
    /\ exports = {}
    /\ outcome = NoOutcome
    /\ calls = <<>>
    /\ now = 0
    /\ removed = {}
    /\ IngestIdle
    /\ HttpIdle

\* The file of a deck is deleted or moved; the rows of the deck and of its
\* slides stay, and so do the standalone files.
DeleteDeck(deck_path) ==
    /\ deck_path \in DeckPaths \ removed
    /\ Exists(DeckFile(deck_path))
    /\ removed' = removed \cup { deck_path }
    /\ UNCHANGED << single, exports, calls, now, decks, slides, slides_dir,
                    thumbnails_dir, ingests, sessions, request, response >>

PortableNext ==
    \/ \E deck_path \in DeckPaths : DeleteDeck(deck_path)
    \/ RaiseNoSlides
    \/ Accept
    \/ FetchFound
    \/ FetchNotFound
    \/ RaiseNoValid
    \/ Prepare
    \/ CopyLoadFails
    \/ CopyRaises
    \/ CopyDone
    \/ Save

SpecPortable == PortableInit /\ [][PortableNext]_vars

\* Every reference of the list that resolves has its standalone file.
AllStandalone ==
    \A k \in 1..Len(ResolvedOf(slide_ids)) :
        UsesSlideFile(ResolvedOf(slide_ids)[k])

\* C22: a slide whose standalone file exists is read from that file alone.
\* Over any step, the deletion of a deck included, the file assemble opens
\* for the slide (for the canvas vote and for the copy), whether it loads
\* and the slide read from it stay what they were; and a call for such
\* slides returns, decks deleted or not, the package the list gives.
C22_IndependentOfDeck ==
    [][/\ \A k \in 1..Len(slide_ids) :
            LET slide_data == get_slide_by_id(slide_ids[k])
            IN  Found(slide_data) /\ UsesSlideFile(slide_data) =>
                    /\ SourceFile(slide_data)' = SourceFile(slide_data)
                    /\ SourceLoads(slide_data)' = SourceLoads(slide_data)
                    /\ SourceLoads(slide_data) =>
                            source_slide(slide_data)' = source_slide(slide_data)
       /\ (AllStandalone /\ pc # "returned" /\ pc' = "returned") =>
                new_prs' = AssembledAlone(slide_ids, preserve_order)
      ]_vars

\* C22 witness: a call for s1 and s6, whose deck was deleted while the call
\* ran, returned a package with the slide of s1 read from its standalone
\* file.
C22_Witness ==
    /\ pc = "returned"
    /\ 1 \in removed
    /\ AllStandalone
    /\ \E k \in 1..Len(slide_ids) : slide_ids[k] = "s1"
    /\ \E k \in 1..Len(slide_ids) : slide_ids[k] = "s6"
    /\ \E n \in 1..Len(new_prs.slides) :
            /\ ordered_slides[added_for[n]].slide_id = "s1"
            /\ Len(new_prs.slides[n].shapes) = 2

====
